---- MODULE Spec2Model ----
(***************************************************************************)
(* FileRecorder: Folder Index + change-reconciliation core.                *)
(*                                                                         *)
(* One module, several specifications, one per component:                  *)
(*   SpecDebounce   watcher/local_watcher.py  DebouncedEventHandler        *)
(*   SpecPoller     watcher/network_poller.py NetworkPoller                *)
(*   SpecIndex      database/db_manager.py    folders / files tables       *)
(*   SpecReconcile  watcher/reconciler.py + the startup dialog flow        *)
(*   SpecManager    watcher/manager.py        FileWatcherManager           *)
(*   SpecApply      watcher/manager.py        apply_config_changes         *)
(*   SpecRegistry   watcher/config.py         monitored_folders registry   *)
(*   SpecScan       ui/mixins/scanner_mixin.py  rescans and index writers  *)
(*   SpecScanFair   SpecScan with fair scheduling of threads and slots     *)
(*   SpecDiff       watcher/reconciler.py     comparison of the file diff  *)
(* Every specification leaves the variables of the other components at     *)
(* their idle value.                                                       *)
(*                                                                         *)
(* Paths and file names are sequences of one-character strings, so that    *)
(* normalisation, prefix tests and SQL LIKE are computed character by      *)
(* character as the code computes them.                                    *)
(***************************************************************************)
EXTENDS Integers, Sequences, FiniteSets, TLC

VARIABLES
    \* ---- DebouncedEventHandler ----
    pending,        \* _pending_events: src_path -> FileEvent (NoEvent = key absent)
    timerArmed,     \* _timer is started and has neither fired nor been cancelled
    flushPc,        \* position of the timer thread inside _flush_events
    flushEvents,    \* local variable `events` of _flush_events
    lastBatch,      \* argument of the callback(events) of the last flush; {} while a flush runs
    win,            \* history of the window open since the last flush snapshot:
                    \*   last[p]  type of the last event recorded for p ("none": no event)
                    \*   mixed    some path received events of two different types
                    \*   raced    an event was recorded while a flush was running
    snapWin,        \* history: win at the snapshot of the flush in progress
    lastBatchWin    \* history: snapWin of the flush that produced lastBatch

debounceVars == <<pending, timerArmed, flushPc, flushEvents, lastBatch,
                  win, snapWin, lastBatchWin>>

VARIABLES
    \* ---- NetworkPoller ----
    _timers,        \* _timers: path -> interval of its QTimer in ms (0 = no timer)
    _last_mtime,    \* _last_mtime: path -> last recorded mtime (Absent = no key)
    _retry_info,    \* _retry_info: path -> [fail_count, first_fail_time] (NoRetry = key absent)
    singleShots,    \* paths with a QTimer.singleShot(1000, _poll) still to fire
    now,            \* time.time(), in seconds
    statOk,         \* environment: os.stat(path) succeeds
    dirMtime,       \* environment: st_mtime of the directory
    lastTick,       \* what the most recent _poll did and emitted
    configured,     \* history: poll_interval_minutes last given for the path (add_poll, update_interval)
    streak          \* history per path: start = time of the first failed tick since the last
                    \*   success (-1: none), prev / cur = retry seconds chosen by the last two failed ticks

pollerVars == <<_timers, _last_mtime, _retry_info, singleShots, now, statOk, dirMtime,
                lastTick, configured, streak>>

VARIABLES
    \* ---- Folder Index Store ----
    folders,        \* rows of table folders: [id, path, parent_id]; parent_id 0 is NULL
    files,          \* rows of table files: [id, filename, folder_id, mtime]; mtime 0 is NULL
    nextFolderId,   \* AUTOINCREMENT sequence of folders
    nextFileId,     \* AUTOINCREMENT sequence of files
    lastOp          \* the most recent call of the store: [op, arg, result]

indexVars == <<folders, files, nextFolderId, nextFileId, lastOp>>

VARIABLES
    \* ---- Registry, Reconciler, startup flow, Watcher Manager ----
    monitored_folders, \* rows of table monitored_folders, by id:
                       \*   [path, last_mtime (0 is NULL), is_local, enabled]
    disk,              \* environment, by folder id: [mtime, reach]; reach is "ok",
                       \*   "no_enum" (stat works, enumerating the tree fails) or "gone"
    phase,             \* position of the process in its startup sequence
    lastPass,          \* outcome of check_all_folders in this process: [status, changed, errors]
    _running,          \* FileWatcherManager._running
    scan_requests,     \* paths a scan was requested for in this process
    surfaced           \* history: [ids, stage]; ids of `changed` of the latest pass while
                       \*   disk and registry are as the pass left them and the alert is
                       \*   unanswered; stage "detected", "exited" (the process ended at
                       \*   the alert), "resurfaced" (the pass after such an exit)

reconcileVars == <<monitored_folders, disk, phase, lastPass, _running, scan_requests,
                   surfaced>>

VARIABLES
    \* ---- FileWatcherManager with its LocalWatcher and WatcherConfig ----
    feature_enabled,   \* watcher_config row feature_enabled = "true"
    _cache_enabled,    \* WatcherConfig._cache_enabled of the manager's config ("None", "True", "False")
    _observers,        \* LocalWatcher._observers / _handlers: the paths with an observer
    handlerTimers,     \* paths whose DebouncedEventHandler has its timer armed
    _error_paths,      \* FileWatcherManager._error_paths
    lastStatus,        \* last status_changed emitted: [kind, working, total]
    lastCall,          \* what the most recent manager call or callback did:
                       \*   [op, published, signals, stopped, started, premise, old, new]
    afterStop          \* stop() has returned and start() was not called since

managerVars == <<feature_enabled, _cache_enabled, _observers, handlerTimers, _error_paths,
                 lastStatus, lastCall, afterStop>>

VARIABLES
    \* ---- WatcherConfig: the monitored_folders table as a registry ----
    nextMonitoredId,   \* AUTOINCREMENT of monitored_folders.id
    lastReg            \* the most recent registry call: [op, arg, result, before]

registryVars == <<nextMonitoredId, lastReg>>

VARIABLES
    \* ---- main window: the scanner thread and the scan queue ----
    scanner_thread,    \* self.scanner_thread: [path, pc, handler]; pc is the position of
                       \*   ScannerThread.run in scan_path, handler the slot its finished
                       \*   signal is connected to ("normal": _on_scan_finished,
                       \*   "silent": _on_silent_scan_finished)
    orphan,            \* a ScannerThread that self.scanner_thread was taken from while
                       \*   it was running
    finishedPosted,    \* finished signals in the event loop of the UI thread, oldest first
    scan_queue,        \* self.scan_queue
    _silent_scan_mode, \* self._silent_scan_mode
    silent_update,     \* watcher_config row silent_update = "true"
    uiPc,              \* the UI thread: "idle" between handlers, "clear_source" inside
                       \*   db.clear_source of _delete_folder_index
    requested,         \* history: paths a rescan was requested for and no scan was
                       \*   started for since
    lastScan           \* the most recent request handler: [op, persisted, started]

scanVars == <<scanner_thread, orphan, finishedPosted, scan_queue, _silent_scan_mode,
              silent_update, uiPc, requested, lastScan>>

vars == <<debounceVars, pollerVars, indexVars, reconcileVars, managerVars, registryVars,
          scanVars>>

\* the variables of the other components, which an action of one component
\* leaves unchanged
notDebounce == <<pollerVars, indexVars, reconcileVars, managerVars, registryVars, scanVars>>
notPoller == <<debounceVars, indexVars, reconcileVars, managerVars, registryVars, scanVars>>
notIndex == <<debounceVars, pollerVars, reconcileVars, managerVars, registryVars, scanVars>>
notReconcile == <<debounceVars, pollerVars, nextFolderId, nextFileId, lastOp, managerVars,
                  registryVars, scanVars>>

(***************************************************************************)
(* Text helpers (Python str methods, SQLite operators)                     *)
(***************************************************************************)
Sep == "\\"

\* str.lower() / SQLite NOCASE folding over the model's alphabet
LowerChar(c) ==
    CASE c = "D" -> "d"
      [] c = "T" -> "t"
      [] OTHER -> c

Lower(s) == [i \in 1..Len(s) |-> LowerChar(s[i])]

\* path.replace('/', '\\')
ReplaceSlash(s) == [i \in 1..Len(s) |-> IF s[i] = "/" THEN Sep ELSE s[i]]

\* path.replace('\\', '/')
ReplaceSep(s) == [i \in 1..Len(s) |-> IF s[i] = Sep THEN "/" ELSE s[i]]

\* str.rstrip(chars)
RECURSIVE RStrip(_, _)
RStrip(s, chars) ==
    IF s # <<>> /\ s[Len(s)] \in chars
    THEN RStrip(SubSeq(s, 1, Len(s) - 1), chars)
    ELSE s

\* str.startswith(prefix)
StartsWith(s, pre) == Len(pre) <= Len(s) /\ SubSeq(s, 1, Len(pre)) = pre

\* `sub in s`
Contains(s, sub) ==
    \E i \in 0..(Len(s) - Len(sub)) : SubSeq(s, i + 1, i + Len(sub)) = sub

\* index of the last separator of s, 0 when there is none
LastSepIndex(s, seps) ==
    LET idx == {i \in 1..Len(s) : s[i] \in seps}
    IN IF idx = {} THEN 0 ELSE CHOOSE i \in idx : \A j \in idx : j <= i

\* path.split('\\')[-1]
LastComponent(s) == SubSeq(s, LastSepIndex(s, {Sep}) + 1, Len(s))

\* '\\'.join(path.split('\\')[:-1])
AllButLastComponent(s) == SubSeq(s, 1, LastSepIndex(s, {Sep}) - 1)

\* SQLite `s LIKE pat` (esc = TRUE: ESCAPE '\'): % any run, _ any one
\* character, everything else compared without regard to ASCII case
RECURSIVE Like(_, _, _)
Like(pat, s, esc) ==
    IF pat = <<>> THEN s = <<>>
    ELSE IF esc /\ Head(pat) = Sep /\ Len(pat) >= 2
    THEN /\ s # <<>>
         /\ LowerChar(Head(s)) = LowerChar(pat[2])
         /\ Like(SubSeq(pat, 3, Len(pat)), Tail(s), esc)
    ELSE IF Head(pat) = "%"
    THEN \/ Like(Tail(pat), s, esc)
         \/ (s # <<>> /\ Like(pat, Tail(s), esc))
    ELSE IF Head(pat) = "_"
    THEN s # <<>> /\ Like(Tail(pat), Tail(s), esc)
    ELSE /\ s # <<>>
         /\ LowerChar(Head(s)) = LowerChar(Head(pat))
         /\ Like(Tail(pat), Tail(s), esc)

\* s.replace('\\', '\\\\')
RECURSIVE EscapeSep(_)
EscapeSep(s) ==
    IF s = <<>> THEN <<>>
    ELSE (IF Head(s) = Sep THEN <<Sep, Sep>> ELSE <<Head(s)>>) \o EscapeSep(Tail(s))

(***************************************************************************)
(* Folder Index Store (database/db_manager.py)                             *)
(***************************************************************************)
\* bounds: rows ever inserted into folders / files, entries of one batch
MaxFolderRows == 4
MaxFileRows == 2
MaxBatchLen == 2

\* directory paths given to the store by its callers
IndexPaths ==
    { <<"c", Sep, "d">>,
      <<"c", "/", "d", "/">>,
      <<"c", Sep, "D">>,
      <<"c", Sep, "d", "b">>,
      <<"c", Sep, "d", Sep, "s">>,
      <<"c", Sep, "_">> }
\* paths asked for by get_direct_subdirs and clear_source
QueryPaths == IndexPaths \cup { <<"c">> }
FileNames == { <<"f">> }
FileMtimes == {1}

NoOp == [op |-> "none", arg |-> <<>>, result |-> 0]

Chars(s) == {s[i] : i \in 1..Len(s)}

\* _frc_standardize_path
_frc_standardize_path(path) ==
    IF path = <<>> THEN <<>> ELSE RStrip(ReplaceSlash(path), {Sep})

\* _get_or_create_folder_id on the table fs with sequence value next:
\* the resulting table, sequence value and the id returned (0 is None)
RECURSIVE _get_or_create_folder_id(_, _, _)
_get_or_create_folder_id(fs, next, raw_path) ==
    IF raw_path = <<>> THEN [folders |-> fs, next |-> next, id |-> 0]
    ELSE
    LET folder_path == _frc_standardize_path(raw_path)
        row == {f \in fs : f.path = folder_path}
    IN IF row # {} THEN [folders |-> fs, next |-> next, id |-> (CHOOSE f \in row : TRUE).id]
       ELSE
       LET parent_path == IF Sep \in Chars(folder_path)
                          THEN AllButLastComponent(folder_path) ELSE <<>>
           par == IF parent_path # <<>>
                  THEN _get_or_create_folder_id(fs, next, parent_path)
                  ELSE [folders |-> fs, next |-> next, id |-> 0]
       IN [folders |-> par.folders \cup
                         {[id |-> par.next, path |-> folder_path, parent_id |-> par.id]},
           next |-> par.next + 1,
           id |-> par.next]

\* INSERT OR REPLACE INTO files (...): files has no UNIQUE constraint besides
\* its AUTOINCREMENT id, which the statement does not supply
InsertFileRow(fl, id, filename, folder_id, mtime) ==
    fl \cup {[id |-> id, filename |-> filename, folder_id |-> folder_id, mtime |-> mtime]}

insert_file(parent_folder, filename, mtime) ==
    LET g == _get_or_create_folder_id(folders, nextFolderId, parent_folder)
    IN /\ g.next <= MaxFolderRows + 1
       /\ nextFileId <= MaxFileRows
       /\ folders' = g.folders
       /\ nextFolderId' = g.next
       /\ files' = InsertFileRow(files, nextFileId, filename, g.id, mtime)
       /\ nextFileId' = nextFileId + 1
       /\ lastOp' = [op |-> "insert_file", arg |-> parent_folder, result |-> g.id]
       /\ UNCHANGED notIndex

\* str(Path(filepath).parent)
PathParent(filepath) == RStrip(AllButLastComponent(ReplaceSlash(filepath)), {Sep})

add_or_update_file(filepath, filename) ==
    LET parent_folder == PathParent(filepath)
        g == _get_or_create_folder_id(folders, nextFolderId, parent_folder)
        row == {x \in files : x.folder_id = g.id /\ x.filename = filename}
    IN /\ g.next <= MaxFolderRows + 1
       /\ folders' = g.folders
       /\ nextFolderId' = g.next
       /\ IF row # {}
          THEN UNCHANGED <<files, nextFileId>>
          ELSE /\ nextFileId <= MaxFileRows
               /\ files' = InsertFileRow(files, nextFileId, filename, g.id, 0)
               /\ nextFileId' = nextFileId + 1
       /\ lastOp' = [op |-> "add_or_update_file", arg |-> parent_folder, result |-> g.id]
       /\ UNCHANGED notIndex

\* first loop of batch_insert: folder ids of the parent folders, in order
RECURSIVE BatchFolders(_, _, _, _)
BatchFolders(fs, next, batch, folder_ids) ==
    IF batch = <<>> THEN [folders |-> fs, next |-> next, folder_ids |-> folder_ids]
    ELSE
    LET parent_folder == Head(batch).parent_folder
    IN IF parent_folder # <<>> /\ parent_folder \notin DOMAIN folder_ids
       THEN LET g == _get_or_create_folder_id(fs, next, parent_folder)
            IN BatchFolders(g.folders, g.next, Tail(batch),
                            folder_ids @@ (parent_folder :> g.id))
       ELSE BatchFolders(fs, next, Tail(batch), folder_ids)

\* second loop of batch_insert and executemany: one row per entry with a name
RECURSIVE BatchRows(_, _, _, _)
BatchRows(fl, next, batch, folder_ids) ==
    IF batch = <<>> THEN [files |-> fl, next |-> next]
    ELSE
    LET f == Head(batch)
    IN IF f.filename = <<>>
       THEN BatchRows(fl, next, Tail(batch), folder_ids)
       ELSE BatchRows(InsertFileRow(fl, next, f.filename, folder_ids[f.parent_folder], f.mtime),
                      next + 1, Tail(batch), folder_ids)

batch_insert(batch) ==
    LET b == BatchFolders(folders, nextFolderId, batch, <<>>)
        r == BatchRows(files, nextFileId, batch, b.folder_ids)
    IN /\ batch # <<>>
       /\ b.next <= MaxFolderRows + 1
       /\ r.next <= MaxFileRows + 1
       /\ folders' = b.folders
       /\ nextFolderId' = b.next
       /\ files' = r.files
       /\ nextFileId' = r.next
       /\ lastOp' = [op |-> "batch_insert", arg |-> <<>>, result |-> 0]
       /\ UNCHANGED notIndex

update_folder_ai_tags(folder_path) ==
    LET normalized_path == ReplaceSlash(RStrip(folder_path, {"/", Sep}))
        exact == {f \in folders :
                    \/ Lower(f.path) = Lower(normalized_path)
                    \/ Lower(f.path) = Lower(ReplaceSep(normalized_path))}
        folder_name == LastComponent(normalized_path)
        fuzzy == {f \in folders : Like(<<"%", Sep>> \o folder_name, f.path, FALSE)}
    IN \* the two UPDATEs write ai_category and ai_tags only, columns the
       \* model does not carry; a row is inserted when neither matched
       /\ IF exact # {} \/ fuzzy # {}
          THEN UNCHANGED <<folders, nextFolderId>>
          ELSE /\ nextFolderId <= MaxFolderRows
               /\ folders' = folders \cup
                                {[id |-> nextFolderId, path |-> normalized_path,
                                  parent_id |-> 0]}
               /\ nextFolderId' = nextFolderId + 1
       /\ lastOp' = [op |-> "update_folder_ai_tags", arg |-> <<>>, result |-> 0]
       /\ UNCHANGED <<files, nextFileId, notIndex>>

\* WHERE LOWER(path) = ? OR LOWER(path) LIKE ?  (the LIKE has no ESCAPE)
ClearSourceRows(fs, scan_source_normalized) ==
    {f \in fs : \/ Lower(f.path) = scan_source_normalized
                \/ Like(scan_source_normalized \o <<Sep, "%">>, Lower(f.path), FALSE)}

clear_source(scan_source) ==
    LET scan_source_normalized == Lower(RStrip(ReplaceSlash(scan_source), {Sep}))
        rows == ClearSourceRows(folders, scan_source_normalized)
        ids == {f.id : f \in rows}
        gone == {x \in files : x.folder_id \in ids}
    IN /\ files' = files \ gone
       /\ folders' = folders \ rows
       /\ lastOp' = [op |-> "clear_source", arg |-> scan_source, result |-> 0]
       /\ UNCHANGED <<nextFolderId, nextFileId, notIndex>>

\* get_direct_subdirs answered through parent_id, for the parent row found
SubdirsByParentId(parent_row) ==
    { [name |-> LastComponent(row.path),
       path |-> row.path,
       has_children |-> (\E g \in folders : g.parent_id = row.id)]
      : row \in {f \in folders : f.parent_id = parent_row.id} }

\* get_direct_subdirs answered through the LIKE fallback
SubdirsByLike(parent_path) ==
    LET prefix == parent_path \o <<Sep>>
        prefix_len == Len(prefix)
        rows == {f \in folders :
                    /\ Like(EscapeSep(prefix) \o <<"%">>, f.path, TRUE)
                    /\ Lower(f.path) # Lower(parent_path)
                    /\ Sep \notin Chars(SubSeq(f.path, prefix_len + 1, Len(f.path)))}
        names == {SubSeq(f.path, prefix_len + 1, Len(f.path)) : f \in rows} \ {<<>>}
        keys == {Lower(n) : n \in names}
        \* one name per lower-cased key (the first row of the cursor)
        kept == {CHOOSE n \in names : Lower(n) = k : k \in keys}
    IN { [name |-> n,
          path |-> parent_path \o <<Sep>> \o n,
          has_children |->
              (\E g \in folders :
                  Like(EscapeSep(parent_path \o <<Sep>> \o n \o <<Sep>>) \o <<"%">>, g.path, TRUE))]
         : n \in kept }

get_direct_subdirs(raw_parent_path) ==
    LET parent_path == RStrip(ReplaceSlash(raw_parent_path), {Sep})
        parent_rows == {f \in folders : Lower(f.path) = Lower(parent_path)}
    IN /\ IF parent_rows # {}
          THEN \E parent_row \in parent_rows :
                  lastOp' = [op |-> "get_direct_subdirs", arg |-> raw_parent_path,
                             result |-> SubdirsByParentId(parent_row)]
          ELSE lastOp' = [op |-> "get_direct_subdirs", arg |-> raw_parent_path,
                          result |-> SubdirsByLike(parent_path)]
       /\ UNCHANGED <<folders, files, nextFolderId, nextFileId, notIndex>>

\* folders update_folder_ai_tags is called for
AiPaths == { <<"c", Sep, "d">>, <<"c", "/", "d", "/", "s">> }
\* the batches given to batch_insert
BatchPaths == { <<"c", Sep, "d">>, <<"c", "/", "d", "/">>, <<"c", Sep, "d", Sep, "s">> }
BatchEntries ==
    [parent_folder : BatchPaths, filename : {<<"f">>, <<>>}, mtime : FileMtimes]
Batches == UNION {[1..n -> BatchEntries] : n \in 1..MaxBatchLen}

IndexEmpty ==
    /\ folders = {}
    /\ files = {}
    /\ nextFolderId = 1
    /\ nextFileId = 1
    /\ lastOp = NoOp

IndexNext ==
    \/ \E p \in IndexPaths, n \in FileNames, m \in FileMtimes : insert_file(p, n, m)
    \/ \E p \in IndexPaths, n \in FileNames : add_or_update_file(p \o <<Sep>> \o n, n)
    \/ \E b \in Batches : batch_insert(b)
    \/ \E p \in AiPaths : update_folder_ai_tags(p)
    \/ \E p \in QueryPaths : clear_source(p)
    \/ \E p \in QueryPaths : get_direct_subdirs(p)

(***************************************************************************)
(* NetworkPoller (watcher/network_poller.py)                               *)
(***************************************************************************)
\* bounds: clock horizon (seconds) and failures counted in one streak
MaxTime == 720
MaxFails == 3

\* the polled network folder (the maps of the poller are keyed by path and
\* no handler reads or writes the entry of another path)
PollPaths == { <<Sep, Sep, "n">> }
FlakyPaths == PollPaths
\* poll_interval_minutes a folder can be configured with
PollIntervals == {1, 15}
\* st_mtime values of a directory (0 is the epoch, which some shares report)
Mtimes == {0, 1, 2}
\* dict.get(path) of a path that has no key
Absent == -1
\* seconds the clock advances between two handler runs
ClockSteps == {60, 480}

NoRetry == [fail_count |-> 0, first_fail_time |-> -1]
NoTick == [path |-> <<>>, kind |-> "none", polled |-> FALSE, time |-> 0, afterFailures |-> FALSE,
           connection_restored |-> FALSE, connection_error |-> FALSE,
           changes_detected |-> 0, emitted |-> FALSE, timerAfter |-> 0]
NoStreak == [start |-> -1, prev |-> 0, cur |-> 0]

\* mutant of NextRetryInterval: the two slower steps are exchanged
NextRetryIntervalSwapped(elapsed) ==
    IF elapsed < 120 THEN 5
    ELSE IF elapsed < 600 THEN 300
    ELSE 30

\* the backoff ladder of _handle_error
NextRetryInterval(elapsed) ==
    IF elapsed < 120 THEN 5
    ELSE IF elapsed < 600 THEN 30
    ELSE 300

\* _restore_normal_interval: the interval is the fixed 15 minutes
RestoredInterval(path) == 15 * 60 * 1000

add_poll(path, folder_last_mtime, minutes) ==
    /\ _timers[path] = 0
    /\ _last_mtime' = IF folder_last_mtime # 0
                      THEN [_last_mtime EXCEPT ![path] = folder_last_mtime]
                      ELSE _last_mtime
    /\ _timers' = [_timers EXCEPT ![path] = minutes * 60 * 1000]
    /\ singleShots' = singleShots \cup {path}
    /\ configured' = [configured EXCEPT ![path] = minutes]
    /\ UNCHANGED <<_retry_info, now, statOk, dirMtime, lastTick, streak, notPoller>>

\* the body of remove_poll for one path, on the three maps
RemovePoll(maps, path) ==
    IF maps.t[path] # 0
    THEN [t |-> [maps.t EXCEPT ![path] = 0],
          m |-> [maps.m EXCEPT ![path] = Absent],
          r |-> [maps.r EXCEPT ![path] = NoRetry],
          s |-> [maps.s EXCEPT ![path] = NoStreak]]
    ELSE maps

remove_poll(path) ==
    LET res == RemovePoll([t |-> _timers, m |-> _last_mtime, r |-> _retry_info, s |-> streak], path)
    IN /\ _timers[path] # 0
       /\ _timers' = res.t
       /\ _last_mtime' = res.m
       /\ _retry_info' = res.r
       /\ streak' = res.s
       /\ UNCHANGED <<singleShots, now, statOk, dirMtime, lastTick, configured, notPoller>>

update_interval(path, minutes) ==
    /\ _timers[path] # 0
    /\ _timers' = [_timers EXCEPT ![path] = minutes * 60 * 1000]
    /\ configured' = [configured EXCEPT ![path] = minutes]
    /\ UNCHANGED <<_last_mtime, _retry_info, singleShots, now, statOk, dirMtime,
                   lastTick, streak, notPoller>>

RECURSIVE RemoveAll(_, _)
RemoveAll(maps, S) ==
    IF S = {} THEN maps
    ELSE LET path == CHOOSE q \in S : TRUE
         IN RemoveAll(RemovePoll(maps, path), S \ {path})

stop_all ==
    LET res == RemoveAll([t |-> _timers, m |-> _last_mtime, r |-> _retry_info, s |-> streak],
                         {q \in PollPaths : _timers[q] # 0})
    IN /\ \E q \in PollPaths : _timers[q] # 0
       /\ _timers' = res.t
       /\ _last_mtime' = res.m
       /\ _retry_info' = res.r
       /\ streak' = res.s
       /\ UNCHANGED <<singleShots, now, statOk, dirMtime, lastTick, configured, notPoller>>

\* _poll when os.stat succeeds
PollSuccess(path) ==
    LET current_mtime == dirMtime[path]
        was_retrying == _retry_info[path] # NoRetry
        last == _last_mtime[path]
        \* "if last_mtime and current_mtime != last_mtime": None and 0.0 are false
        emit == last # Absent /\ last # 0 /\ current_mtime # last
        timerAfter == IF was_retrying /\ _timers[path] # 0
                      THEN RestoredInterval(path) ELSE _timers[path]
    IN /\ _retry_info' = [_retry_info EXCEPT ![path] = NoRetry]
       /\ _timers' = [_timers EXCEPT ![path] = timerAfter]
       /\ _last_mtime' = [_last_mtime EXCEPT ![path] = current_mtime]
       /\ streak' = [streak EXCEPT ![path] = NoStreak]
       /\ lastTick' = [path |-> path, kind |-> "ok", polled |-> _timers[path] # 0,
                       time |-> now, afterFailures |-> streak[path].start >= 0,
                       connection_restored |-> was_retrying,
                       connection_error |-> FALSE,
                       changes_detected |-> IF emit THEN current_mtime ELSE 0,
                       emitted |-> emit,
                       timerAfter |-> timerAfter]

\* _poll when os.stat raises: _handle_error
PollFailure(path) ==
    LET info0 == IF _retry_info[path] = NoRetry
                 THEN [fail_count |-> 0, first_fail_time |-> now]
                 ELSE _retry_info[path]
        info == [info0 EXCEPT !.fail_count = @ + 1]
        elapsed == now - info.first_fail_time
        next_interval == NextRetryInterval(elapsed)
        timerAfter == IF _timers[path] # 0 THEN next_interval * 1000 ELSE 0
    IN /\ info.fail_count <= MaxFails
       /\ _retry_info' = [_retry_info EXCEPT ![path] = info]
       /\ _timers' = [_timers EXCEPT ![path] = timerAfter]
       /\ streak' = [streak EXCEPT ![path] =
                        [start |-> IF @.start = -1 THEN now ELSE @.start,
                         prev |-> @.cur, cur |-> next_interval]]
       /\ lastTick' = [path |-> path, kind |-> "fail", polled |-> _timers[path] # 0,
                       time |-> now, afterFailures |-> streak[path].start >= 0,
                       connection_restored |-> FALSE, connection_error |-> TRUE,
                       changes_detected |-> 0, emitted |-> FALSE,
                       timerAfter |-> timerAfter]
       /\ UNCHANGED _last_mtime

_poll(path) ==
    IF statOk[path] THEN PollSuccess(path) ELSE PollFailure(path)

\* the QTimer of the path times out
TimerPoll(path) ==
    /\ _timers[path] # 0
    /\ _poll(path)
    /\ UNCHANGED <<singleShots, now, statOk, dirMtime, configured, notPoller>>

\* the singleShot of add_poll fires; remove_poll does not cancel it
SingleShotPoll(path) ==
    /\ path \in singleShots
    /\ singleShots' = singleShots \ {path}
    /\ _poll(path)
    /\ UNCHANGED <<now, statOk, dirMtime, configured, notPoller>>

ClockAdvance(d) ==
    /\ now + d <= MaxTime
    /\ now' = now + d
    /\ UNCHANGED <<_timers, _last_mtime, _retry_info, singleShots, statOk, dirMtime,
                   lastTick, configured, streak, notPoller>>

\* the share becomes unreachable or reachable again
ShareFlip(path) ==
    /\ path \in FlakyPaths
    /\ statOk' = [statOk EXCEPT ![path] = ~@]
    /\ UNCHANGED <<_timers, _last_mtime, _retry_info, singleShots, now, dirMtime,
                   lastTick, configured, streak, notPoller>>

\* the content of the directory changes
DirTouch(path, m) ==
    /\ m # dirMtime[path]
    /\ dirMtime' = [dirMtime EXCEPT ![path] = m]
    /\ UNCHANGED <<_timers, _last_mtime, _retry_info, singleShots, now, statOk,
                   lastTick, configured, streak, notPoller>>

PollerIdle ==
    /\ _timers = [q \in PollPaths |-> 0]
    /\ _last_mtime = [q \in PollPaths |-> Absent]
    /\ _retry_info = [q \in PollPaths |-> NoRetry]
    /\ singleShots = {}
    /\ now = 0
    /\ statOk = [q \in PollPaths |-> TRUE]
    /\ dirMtime = [q \in PollPaths |-> 1]
    /\ lastTick = NoTick
    /\ configured = [q \in PollPaths |-> 0]
    /\ streak = [q \in PollPaths |-> NoStreak]

PollerNext ==
    \/ \E path \in PollPaths, m \in {0} \cup Mtimes, i \in PollIntervals : add_poll(path, m, i)
    \/ \E path \in PollPaths : remove_poll(path)
    \/ \E path \in PollPaths, i \in PollIntervals : update_interval(path, i)
    \/ stop_all
    \/ \E path \in PollPaths : TimerPoll(path)
    \/ \E path \in PollPaths : SingleShotPoll(path)
    \/ \E d \in ClockSteps : ClockAdvance(d)
    \/ \E path \in PollPaths : ShareFlip(path)
    \/ \E path \in PollPaths, m \in Mtimes : DirTouch(path, m)

(***************************************************************************)
(* DebouncedEventHandler (watcher/local_watcher.py)                        *)
(***************************************************************************)
NoEvent == [event_type |-> "none"]

\* source paths the observer reports: a directory, the thumbnail cache of
\* the folder and a temporary file; DirPaths are the directories among them
SrcPaths == { <<"w", Sep, "b">>, <<"w", Sep, "T", "h", "u", "m", "b", "s", ".", "d", "b">>,
              <<"w", Sep, "a", ".", "t", "m", "p">> }
DirPaths == { <<"w", Sep, "b">> }
DestPath == <<"w", Sep, "z">>

_ignore_patterns ==
    { <<".", "t", "m", "p">>, <<".", "p", "a", "r", "t", "i", "a", "l">>,
      <<".", "c", "r", "d", "o", "w", "n", "l", "o", "a", "d">>, <<".", "p", "a", "r", "t">>,
      <<"~", "$">>, <<".", "s", "w", "p">>, <<".", "l", "o", "c", "k">>,
      <<"d", "e", "s", "k", "t", "o", "p", ".", "i", "n", "i">>,
      <<"T", "h", "u", "m", "b", "s", ".", "d", "b">> }

\* Path(path).name
PathName(p) == SubSeq(p, LastSepIndex(p, {Sep, "/"}) + 1, Len(p))

_should_ignore(path) ==
    LET filename == Lower(PathName(path))
    IN \E pattern \in _ignore_patterns : Contains(filename, pattern)

FileEvent(type, src, dest, isDir) ==
    [event_type |-> type, src_path |-> src, dest_path |-> dest, is_directory |-> isDir]

\* mutant of StorePending: the first event of a path is kept
StorePendingKeepFirst(pend, event) ==
    IF pend[event.src_path] = NoEvent
    THEN [pend EXCEPT ![event.src_path] = event]
    ELSE pend

\* self._pending_events[event.src_path] = event
StorePending(pend, event) == [pend EXCEPT ![event.src_path] = event]

EmptyWindow == [last |-> [p \in SrcPaths |-> "none"], mixed |-> FALSE, raced |-> FALSE]

\* _add_event followed by _schedule_callback: the event replaces the pending
\* one of its path, a running timer is cancelled and a new one started
_add_event(event) ==
    /\ pending' = StorePending(pending, event)
    /\ timerArmed' = TRUE
    /\ win' = [last  |-> [win.last EXCEPT ![event.src_path] = event.event_type],
               mixed |-> (win.mixed \/ win.last[event.src_path] \notin {"none", event.event_type}),
               raced |-> (win.raced \/ flushPc # "idle")]
    /\ UNCHANGED <<flushPc, flushEvents, lastBatch, snapWin, lastBatchWin, notDebounce>>

on_created(src) ==
    /\ ~_should_ignore(src)
    /\ _add_event(FileEvent("created", src, <<>>, src \in DirPaths))

on_deleted(src) ==
    /\ ~_should_ignore(src)
    /\ _add_event(FileEvent("deleted", src, <<>>, src \in DirPaths))

on_modified(src) ==
    /\ src \notin DirPaths
    /\ ~_should_ignore(src)
    /\ _add_event(FileEvent("modified", src, <<>>, FALSE))

on_moved(src) ==
    /\ ~_should_ignore(src)
    /\ _add_event(FileEvent("moved", src, DestPath, src \in DirPaths))

\* the timer expires and its thread enters _flush_events: pending is tested
\* and copied (events = list(values)); one timer thread flushes at a time
TimerFire ==
    /\ timerArmed
    /\ flushPc = "idle"
    /\ timerArmed' = FALSE
    /\ win' = EmptyWindow
    /\ IF \E p \in SrcPaths : pending[p] # NoEvent
       THEN /\ flushEvents' = {pending[p] : p \in {q \in SrcPaths : pending[q] # NoEvent}}
            /\ flushPc' = "snapshot"
            /\ snapWin' = win
            /\ lastBatch' = {}
            /\ lastBatchWin' = EmptyWindow
       ELSE UNCHANGED <<flushEvents, flushPc, snapWin, lastBatch, lastBatchWin>>
    /\ UNCHANGED <<pending, notDebounce>>

\* self._pending_events.clear()
FlushClear ==
    /\ flushPc = "snapshot"
    /\ pending' = [p \in SrcPaths |-> NoEvent]
    /\ flushPc' = "cleared"
    /\ UNCHANGED <<timerArmed, flushEvents, lastBatch, win, snapWin, lastBatchWin, notDebounce>>

\* self.callback(events)
FlushCallback ==
    /\ flushPc = "cleared"
    /\ lastBatch' = flushEvents
    /\ lastBatchWin' = snapWin
    /\ flushEvents' = {}
    /\ snapWin' = EmptyWindow
    /\ flushPc' = "idle"
    /\ UNCHANGED <<pending, timerArmed, win, notDebounce>>

DebounceInit ==
    /\ pending = [p \in SrcPaths |-> NoEvent]
    /\ timerArmed = FALSE
    /\ flushPc = "idle"
    /\ flushEvents = {}
    /\ lastBatch = {}
    /\ win = EmptyWindow
    /\ snapWin = EmptyWindow
    /\ lastBatchWin = EmptyWindow

DebounceNext ==
    \/ \E src \in SrcPaths : on_created(src)
    \/ \E src \in SrcPaths : on_deleted(src)
    \/ \E src \in SrcPaths : on_modified(src)
    \/ \E src \in SrcPaths : on_moved(src)
    \/ TimerFire
    \/ FlushClear
    \/ FlushCallback

(***************************************************************************)
(* Registry, Reconciler, startup change alert, Watcher Manager             *)
(* (watcher/config.py, watcher/reconciler.py, ui/mixins/watcher_mixin.py,  *)
(*  watcher/manager.py)                                                    *)
(***************************************************************************)
\* the two monitored folders: a local one and a network share
LocalPath == <<"c", ":", Sep, "d">>
NetPath == <<Sep, Sep, "n">>
FolderIds == {1, 2}
\* get_all_folders: ORDER BY path ('\' sorts before 'c')
FolderOrder == <<2, 1>>

\* mutant of _is_local_path: the colon looked for at the first character
_is_local_pathFirstChar(path) ==
    IF StartsWith(path, <<Sep, Sep>>) \/ StartsWith(path, <<"/", "/">>) THEN FALSE
    ELSE Len(path) >= 2 /\ path[1] = ":"

\* _is_local_path
_is_local_path(path) ==
    IF StartsWith(path, <<Sep, Sep>>) \/ StartsWith(path, <<"/", "/">>) THEN FALSE
    ELSE Len(path) >= 2 /\ path[2] = ":"

\* poll_interval of add_folder when the caller gives none
DefaultPollInterval == 15

\* the row add_folder inserts for path, with the mtime recorded since
MonitoredRow(path, last_mtime, enabled) ==
    [path |-> RStrip(ReplaceSlash(path), {Sep}),
     last_mtime |-> last_mtime,
     is_local |-> _is_local_path(RStrip(ReplaceSlash(path), {Sep})),
     poll_interval_minutes |-> DefaultPollInterval,
     enabled |-> enabled]

\* get_enabled_folders, in registry order
RECURSIVE EnabledIn(_, _)
EnabledIn(order, reg) ==
    IF order = <<>> THEN <<>>
    ELSE (IF reg[Head(order)].enabled THEN <<Head(order)>> ELSE <<>>)
             \o EnabledIn(Tail(order), reg)

get_enabled_folders(reg) == EnabledIn(FolderOrder, reg)

\* update_folder_mtime on the registry reg
update_folder_mtime(reg, folder_id, mtime) ==
    [reg EXCEPT ![folder_id].last_mtime = mtime]

\* environment: the files of the tree of folder id while its mtime is m,
\* as [path, mtime] of Path.rglob and stat
LiveFiles(id, m) ==
    IF id = 1
    THEN IF m = 1
         THEN {[path |-> LocalPath \o <<Sep, "f">>, mtime |-> 1]}
         ELSE {[path |-> LocalPath \o <<Sep, "f">>, mtime |-> 2],
               [path |-> LocalPath \o <<Sep, "g">>, mtime |-> 2]}
    ELSE {}

\* _folder_in_index
_folder_in_index(path) ==
    LET normalized == RStrip(ReplaceSlash(path), {Sep})
    IN \E f \in folders :
          \/ Lower(f.path) = Lower(normalized)
          \/ Like(EscapeSep(normalized) \o <<"%">>, f.path, TRUE)

\* _check_folder: the FolderChange of one folder
_check_folder(id, folder) ==
    IF disk[id].reach = "gone"
    THEN [id |-> id, old_mtime |-> folder.last_mtime, new_mtime |-> 0,
          accessible |-> FALSE, is_new_folder |-> FALSE,
          added_count |-> 0, deleted_count |-> 0, modified_count |-> 0, file_changes |-> <<>>]
    ELSE [id |-> id, old_mtime |-> folder.last_mtime, new_mtime |-> disk[id].mtime,
          accessible |-> TRUE, is_new_folder |-> ~_folder_in_index(folder.path),
          added_count |-> 0, deleted_count |-> 0, modified_count |-> 0, file_changes |-> <<>>]

\* columns of table files (CREATE TABLE files)
FilesColumns ==
    {"id", "filename", "extension", "folder_id", "size_bytes", "ctime", "mtime",
     "scan_time", "ai_category", "ai_tags", "is_dir"}
\* columns of files the SELECT of _detect_file_changes names
DetectSelectColumns == {"filename", "modified_time", "size"}

\* the value of column col in a files row (NULL is 0)
RowValue(row, col) == IF col \in DOMAIN row THEN row[col] ELSE 0

\* rows of the SELECT of _detect_file_changes, as [path, mtime] keyed by
\* os.path.join(fo.path, f.filename)
IndexedFiles(folder_path) ==
    LET normalized == RStrip(ReplaceSlash(folder_path), {Sep})
    IN {[path |-> fo.path \o <<Sep>> \o x.filename, mtime |-> RowValue(x, "modified_time")]
          : <<x, fo>> \in {y \in files \X folders :
                  /\ y[1].folder_id = y[2].id
                  /\ Like(EscapeSep(normalized) \o <<"%">>, y[2].path, TRUE)}}

Min(a, b) == IF a <= b THEN a ELSE b

\* caps of the sample list file_changes: per category, and in total
SampleCap == 5
SampleTotalCap == 10

\* n entries of file_changes with one change_type
Entries(n, change_type) == [i \in 1..n |-> change_type]

\* the comparison at the end of _detect_file_changes: the counts, and the
\* change_type of every entry appended to file_changes, in order
\* (list(added)[:5], list(deleted)[:5], then modified entries while the
\* list holds fewer than 10)
CompareFiles(change, added, deleted, modified) ==
    LET shown == change.file_changes
                    \o Entries(Min(Cardinality(added), SampleCap), "added")
                    \o Entries(Min(Cardinality(deleted), SampleCap), "deleted")
        room == IF Len(shown) < SampleTotalCap THEN SampleTotalCap - Len(shown) ELSE 0
    IN [change EXCEPT
          !.added_count = Cardinality(added),
          !.deleted_count = Cardinality(deleted),
          !.modified_count = Cardinality(modified),
          !.file_changes = shown \o Entries(Min(Cardinality(modified), room), "modified")]

\* _detect_file_changes: whether it raised, and the FolderChange it filled in
_detect_file_changes(change) ==
    IF disk[change.id].reach = "no_enum"
    THEN \* the enumeration failed: the message is printed and the method returns
         [raised |-> FALSE, change |-> change]
    ELSE IF ~(DetectSelectColumns \subseteq FilesColumns)
    THEN \* sqlite3.OperationalError (no such column) leaves the method
         [raised |-> TRUE, change |-> change]
    ELSE
    LET current_files == LiveFiles(change.id, disk[change.id].mtime)
        indexed_files == IndexedFiles(monitored_folders[change.id].path)
        current_set == {Lower(c.path) : c \in current_files}
        indexed_set == {Lower(x.path) : x \in indexed_files}
        CurrentMtime(p) == (CHOOSE c \in current_files : Lower(c.path) = p).mtime
        IndexedMtime(p) == (CHOOSE x \in indexed_files : Lower(x.path) = p).mtime
        added == current_set \ indexed_set
        deleted == indexed_set \ current_set
        modified == {p \in current_set \cap indexed_set : CurrentMtime(p) # IndexedMtime(p)}
    IN [raised |-> FALSE, change |-> CompareFiles(change, added, deleted, modified)]

\* mutant of PersistsOnPass: the pass also records the mtime of a folder
\* whose mtime did not change
PersistsOnPassUnchanged(result) ==
    /\ result.accessible
    /\ ~result.is_new_folder
    /\ (result.old_mtime = 0 \/ result.new_mtime = result.old_mtime)

\* mutant of PersistsOnPass: the pass also records the mtime of a folder
\* whose mtime changed
PersistsOnPassChanged(result) ==
    /\ result.accessible
    /\ ~result.is_new_folder
    /\ (result.old_mtime = 0 \/ result.new_mtime # result.old_mtime)

\* check_all_folders: the one branch that calls config.update_folder_mtime
\* (first check of a folder that is indexed already)
PersistsOnPass(result) ==
    /\ result.accessible
    /\ ~result.is_new_folder
    /\ result.old_mtime = 0

\* the pair check_all_folders returns, with the ids it called
\* config.update_folder_mtime for
NoPass == [status |-> "none", changed |-> {}, errors |-> {}, updated |-> {}]
NoSurfaced == [ids |-> {}, stage |-> "none"]

\* the loop of check_all_folders over the enabled folders `order`, from the
\* registry reg and the lists collected so far
RECURSIVE CheckFolders(_, _, _)
CheckFolders(order, reg, acc) ==
    IF order = <<>> THEN [reg |-> reg, pass |-> [acc EXCEPT !.status = "returned"]]
    ELSE
    LET id == Head(order)
        result == _check_folder(id, reg[id])
        reg2 == IF PersistsOnPass(result)
                THEN update_folder_mtime(reg, id, result.new_mtime) ELSE reg
        acc2 == IF PersistsOnPass(result)
                THEN [acc EXCEPT !.updated = @ \cup {id}] ELSE acc
    IN IF ~result.accessible
       THEN CheckFolders(Tail(order), reg2, [acc2 EXCEPT !.errors = @ \cup {result}])
       ELSE IF result.is_new_folder
       THEN CheckFolders(Tail(order), reg2, [acc2 EXCEPT !.changed = @ \cup {result}])
       ELSE IF result.old_mtime = 0
       THEN CheckFolders(Tail(order), reg2, acc2)
       ELSE IF result.new_mtime # result.old_mtime
       THEN LET d == _detect_file_changes(result)
            IN IF d.raised
               THEN \* the exception leaves check_all_folders: nothing is returned
                    [reg |-> reg2, pass |-> [status |-> "raised", changed |-> {}, errors |-> {},
                                             updated |-> acc2.updated]]
               ELSE CheckFolders(Tail(order), reg2,
                                 [acc2 EXCEPT !.changed = @ \cup {d.change}])
       ELSE CheckFolders(Tail(order), reg2, acc2)

check_all_folders(reg) == CheckFolders(get_enabled_folders(reg), reg, NoPass)

ChangedIds(pass) == {ch.id : ch \in pass.changed}

\* the startup sequence of the main window: the reconciliation runs when
\* the process starts, before any watch is started ...
StartupRunsCheck == phase = "start"
\* ... and the runtime watcher is started once _check_watcher_on_startup,
\* change alert included, has returned
StartupStartsWatcher == phase = "checked"

\* _check_watcher_on_startup, up to the change alert it opens
_check_watcher_on_startup ==
    /\ StartupRunsCheck
    /\ uiPc = "idle"
    /\ IF get_enabled_folders(monitored_folders) = <<>>
       THEN /\ phase' = "checked"
            /\ surfaced' = NoSurfaced
            /\ UNCHANGED <<monitored_folders, lastPass>>
       ELSE LET r == check_all_folders(monitored_folders)
            IN /\ monitored_folders' = r.reg
               /\ lastPass' = r.pass
               /\ phase' = IF r.pass.status = "raised" THEN "raised"
                           ELSE IF r.pass.changed # {} THEN "alert"
                           ELSE "checked"
               /\ surfaced' = [ids |-> ChangedIds(r.pass),
                               stage |-> IF surfaced.stage = "exited"
                                         THEN "resurfaced" ELSE "detected"]
    /\ UNCHANGED <<disk, _running, scan_requests, folders, files, notReconcile>>

\* ---- rescans: ScannerMixin over the scanner thread and the scan queue ----
\* (the counters and labels of the progress display are not followed)
MaxQueue == 2
MaxPosted == 2

NoThread == [path |-> <<>>, pc |-> "none", handler |-> "none"]
NoScan == [op |-> "none", persisted |-> {}, started |-> {}]

\* QThread.isRunning: from start() until run() has returned
isRunning(thread) == thread.pc \in {"clear_source", "walk", "emitted"}

\* the main window's scan state before a handler, as one record: `started`
\* collects the paths a thread is started for, `fits` is whether the
\* handler stays inside the bounds of the model
ScanCur ==
    [t |-> scanner_thread, o |-> orphan, q |-> scan_queue, m |-> _silent_scan_mode,
     started |-> {}, fits |-> TRUE]

\* self.scanner_thread = ScannerThread(scanner, path); ...finished.connect(handler);
\* self.scanner_thread.start()
StartThread(sc, path, handler) ==
    [sc EXCEPT !.t = [path |-> path, pc |-> "clear_source", handler |-> handler],
               !.o = IF isRunning(sc.t) THEN sc.t ELSE sc.o,
               !.fits = sc.fits /\ ~(isRunning(sc.t) /\ sc.o # NoThread),
               !.started = sc.started \cup {path}]

\* _start_scan: a warning box and nothing else while a scan is running
_start_scan(sc, path) ==
    IF isRunning(sc.t) THEN sc ELSE StartThread(sc, path, "normal")

\* _on_multi_scan_requested
_on_multi_scan_requested(sc, paths) ==
    IF paths = <<>> THEN sc
    ELSE _start_scan([sc EXCEPT !.q = Tail(paths)], Head(paths))

\* _scan_next_in_queue
_scan_next_in_queue(sc) ==
    IF sc.q = <<>> THEN sc
    ELSE StartThread([sc EXCEPT !.q = Tail(sc.q)], Head(sc.q), "normal")

\* _start_next_scan_silent
_start_next_scan_silent(sc) ==
    IF sc.q = <<>> THEN [sc EXCEPT !.m = FALSE]
    ELSE StartThread([sc EXCEPT !.q = Tail(sc.q)], Head(sc.q), "silent")

\* for path in paths: if path not in self.scan_queue: self.scan_queue.append(path)
RECURSIVE AppendNew(_, _)
AppendNew(q, paths) ==
    IF paths = <<>> THEN q
    ELSE AppendNew(IF \E i \in 1..Len(q) : q[i] = Head(paths) THEN q
                   ELSE Append(q, Head(paths)),
                   Tail(paths))

\* _on_multi_scan_silent
_on_multi_scan_silent(sc, paths) ==
    IF isRunning(sc.t) THEN [sc EXCEPT !.q = AppendNew(sc.q, paths)]
    ELSE _start_next_scan_silent([sc EXCEPT !.q = paths, !.m = TRUE])

\* the loop of _update_changed_folders over existing_folders (ids in the
\* order of the pass): a scan request for each
RECURSIVE RequestEach(_, _, _)
RequestEach(sc, ids, reg) ==
    IF ids = <<>> THEN sc
    ELSE RequestEach(_on_multi_scan_requested(sc, <<reg[Head(ids)].path>>), Tail(ids), reg)

\* the ids of S in registry order
RECURSIVE InOrder(_, _)
InOrder(order, S) ==
    IF order = <<>> THEN <<>>
    ELSE (IF Head(order) \in S THEN <<Head(order)>> ELSE <<>>) \o InOrder(Tail(order), S)

\* _update_changed_folders on the scan state: one request with all new
\* folders, then one request per folder that is indexed already
_update_changed_folders(sc, reg, changes) ==
    LET new_ids == InOrder(FolderOrder, {c.id : c \in {x \in changes : x.is_new_folder}})
        existing_ids == InOrder(FolderOrder,
                                {c.id : c \in {x \in changes : ~x.is_new_folder}})
        new_folders == [i \in 1..Len(new_ids) |-> reg[new_ids[i]].path]
        sc1 == IF new_folders # <<>> THEN _on_multi_scan_requested(sc, new_folders) ELSE sc
    IN RequestEach(sc1, existing_ids, reg)

\* the scan state r a handler leaves, the paths it was asked to rescan and
\* the folders whose last_mtime it wrote
ScanCommit(r, op, paths, persisted) ==
    /\ r.fits
    /\ Len(r.q) <= MaxQueue
    /\ scanner_thread' = r.t
    /\ orphan' = r.o
    /\ scan_queue' = r.q
    /\ _silent_scan_mode' = r.m
    /\ requested' = (requested \cup paths) \ r.started
    /\ lastScan' = [op |-> op, persisted |-> persisted, started |-> r.started]

\* _update_changed_folders on the registry: the existing folders of the
\* selection get the mtime the pass saw
RECURSIVE UpdateExisting(_, _)
UpdateExisting(reg, changes) ==
    IF changes = {} THEN reg
    ELSE LET change == CHOOSE c \in changes : TRUE
         IN UpdateExisting(update_folder_mtime(reg, change.id, change.new_mtime),
                           changes \ {change})

\* _show_change_alert, from the answer of the dialogs on; `selected` is
\* what ChangeSelectDialog returns (empty when it is cancelled)
_show_change_alert(result_action) ==
    /\ phase = "alert"
    /\ uiPc = "idle"
    /\ \E selected \in SUBSET lastPass.changed :
          LET changes == IF result_action = "all" THEN lastPass.changed
                         ELSE IF result_action = "select" THEN selected
                         ELSE {}
              existing_folders == {c \in changes : ~c.is_new_folder}
          IN /\ monitored_folders' = UpdateExisting(monitored_folders, existing_folders)
             /\ scan_requests' = scan_requests \cup
                                    {monitored_folders[c.id].path : c \in changes}
             /\ ScanCommit(_update_changed_folders(ScanCur, monitored_folders, changes),
                           "_update_changed_folders",
                           {monitored_folders[c.id].path : c \in changes},
                           {c.id : c \in existing_folders})
    /\ phase' = "checked"
    /\ surfaced' = NoSurfaced
    /\ UNCHANGED <<disk, lastPass, _running, folders, files, debounceVars, pollerVars,
                   nextFolderId, nextFileId, lastOp, managerVars, registryVars,
                   finishedPosted, silent_update, uiPc>>

\* _start_runtime_watcher -> FileWatcherManager.start, called once
\* _check_watcher_on_startup has returned
_start_runtime_watcher ==
    /\ StartupStartsWatcher
    /\ ~_running
    /\ _running' = TRUE
    /\ phase' = "watching"
    /\ UNCHANGED <<monitored_folders, disk, lastPass, scan_requests, surfaced,
                   folders, files, notReconcile>>

\* FileWatcherManager._on_local_changes for the watched folder id
_on_local_changes(id) ==
    /\ _running
    /\ monitored_folders[id].enabled /\ monitored_folders[id].is_local
    /\ monitored_folders' =
          IF disk[id].reach # "gone"
          THEN update_folder_mtime(monitored_folders, id, disk[id].mtime)
          ELSE monitored_folders
    /\ scan_requests' = scan_requests \cup {monitored_folders[id].path}
    /\ surfaced' = NoSurfaced
    /\ UNCHANGED <<disk, phase, lastPass, _running, folders, files, notReconcile>>

\* FileWatcherManager._on_network_changes for the polled folder id
_on_network_changes(id, new_mtime) ==
    /\ _running
    /\ monitored_folders[id].enabled /\ ~monitored_folders[id].is_local
    /\ disk[id].reach # "gone" /\ new_mtime = disk[id].mtime
    /\ monitored_folders' = update_folder_mtime(monitored_folders, id, new_mtime)
    /\ scan_requests' = scan_requests \cup {monitored_folders[id].path}
    /\ surfaced' = NoSurfaced
    /\ UNCHANGED <<disk, phase, lastPass, _running, folders, files, notReconcile>>

\* the process ends (closed or killed) and is started again: what is in
\* memory is lost, the tables stay
ProcessExit ==
    /\ phase # "start"
    /\ phase' = "start"
    /\ lastPass' = NoPass
    /\ _running' = FALSE
    /\ scan_requests' = {}
    /\ surfaced' = IF phase = "alert" /\ surfaced.ids # {}
                    THEN [surfaced EXCEPT !.stage = "exited"] ELSE NoSurfaced
    /\ scanner_thread' = NoThread
    /\ orphan' = NoThread
    /\ finishedPosted' = <<>>
    /\ scan_queue' = <<>>
    /\ _silent_scan_mode' = FALSE
    /\ uiPc' = "idle"
    /\ requested' = {}
    /\ lastScan' = NoScan
    /\ UNCHANGED <<monitored_folders, disk, folders, files, silent_update, debounceVars,
                   pollerVars, nextFolderId, nextFileId, lastOp, managerVars, registryVars>>

DiskMtimes == {1, 2}
Reaches == {"ok", "no_enum", "gone"}

\* environment: the directory of folder id is modified
DiskTouch(id) ==
    /\ disk' = [disk EXCEPT ![id].mtime = IF @ = 1 THEN 2 ELSE 1]
    /\ surfaced' = NoSurfaced
    /\ UNCHANGED <<monitored_folders, phase, lastPass, _running, scan_requests,
                   folders, files, notReconcile>>

\* environment: the directory of folder id becomes reachable, unreadable or absent
ReachChange(id, r) ==
    /\ disk[id].reach # r
    /\ disk' = [disk EXCEPT ![id].reach = r]
    /\ surfaced' = NoSurfaced
    /\ UNCHANGED <<monitored_folders, phase, lastPass, _running, scan_requests,
                   folders, files, notReconcile>>

\* index states the reconciler starts from: nothing indexed, the local
\* folder indexed with one file, both folders indexed, and only a folder
\* next to the local one indexed, whose name begins with the local one's
IndexLocal == _get_or_create_folder_id({}, 1, LocalPath)
IndexBoth == _get_or_create_folder_id(IndexLocal.folders, IndexLocal.next, NetPath)
IndexSibling == _get_or_create_folder_id({}, 1, LocalPath \o <<"b">>)
IndexStates ==
    { [folders |-> {}, files |-> {}, nextFolderId |-> 1, nextFileId |-> 1],
      [folders |-> IndexSibling.folders, files |-> {},
       nextFolderId |-> IndexSibling.next, nextFileId |-> 1],
      [folders |-> IndexLocal.folders,
       files |-> InsertFileRow({}, 1, <<"f">>, IndexLocal.id, 1),
       nextFolderId |-> IndexLocal.next, nextFileId |-> 2],
      [folders |-> IndexBoth.folders,
       files |-> InsertFileRow({}, 1, <<"f">>, IndexLocal.id, 1),
       nextFolderId |-> IndexBoth.next, nextFileId |-> 2] }

\* the registry after add_folder of both paths and no check yet, a
\* reachable disk, the process at its start
ReconcileIdle ==
    /\ monitored_folders = (1 :> MonitoredRow(LocalPath, 0, TRUE)
                            @@ 2 :> MonitoredRow(NetPath, 0, TRUE))
    /\ disk = [id \in FolderIds |-> [mtime |-> 1, reach |-> "ok"]]
    /\ phase = "start"
    /\ lastPass = NoPass
    /\ _running = FALSE
    /\ scan_requests = {}
    /\ surfaced = NoSurfaced

\* a process start with both folders registered: any recorded mtimes, the
\* network folder enabled or not, any disk, one of the index states
ReconcileInit ==
    /\ \E m1 \in 0..2, m2 \in 0..2, e2 \in BOOLEAN :
          monitored_folders = (1 :> MonitoredRow(LocalPath, m1, TRUE)
                               @@ 2 :> MonitoredRow(NetPath, m2, e2))
    /\ disk \in [FolderIds -> [mtime : DiskMtimes, reach : Reaches]]
    /\ \E ix \in IndexStates :
          /\ folders = ix.folders
          /\ files = ix.files
          /\ nextFolderId = ix.nextFolderId
          /\ nextFileId = ix.nextFileId
    /\ lastOp = NoOp
    /\ phase = "start"
    /\ lastPass = NoPass
    /\ _running = FALSE
    /\ scan_requests = {}
    /\ surfaced = NoSurfaced

ReconcileNext ==
    \/ _check_watcher_on_startup
    \/ \E a \in {"all", "select", "later"} : _show_change_alert(a)
    \/ _start_runtime_watcher
    \/ \E id \in FolderIds : _on_local_changes(id)
    \/ \E id \in FolderIds, m \in DiskMtimes : _on_network_changes(id, m)
    \/ ProcessExit
    \/ \E id \in FolderIds : DiskTouch(id)
    \/ \E id \in FolderIds, r \in Reaches : ReachChange(id, r)

(***************************************************************************)
(* FileWatcherManager (watcher/manager.py) with LocalWatcher.add_watch /   *)
(* remove_watch and WatcherConfig.is_enabled                               *)
(***************************************************************************)
NoStatus == [kind |-> "none", working |-> 0, total |-> 0]
NoCall == [op |-> "none", published |-> FALSE, signals |-> {}, stopped |-> {},
           started |-> {}, premise |-> FALSE, old |-> <<>>, new |-> <<>>]

\* the manager with its two sub-watchers, as one record, before a call:
\* nothing published, no watch stopped or started yet
Cur ==
    [r |-> _running, c |-> _cache_enabled, o |-> _observers,
     t |-> _timers, m |-> _last_mtime, ri |-> _retry_info, s |-> streak,
     ss |-> singleShots, cf |-> configured, e |-> _error_paths,
     status |-> lastStatus, published |-> FALSE, stopped |-> {}, started |-> {}]

\* WatcherConfig.is_enabled: the cached value when there is one
is_enabled(c) == IF c # "None" THEN c = "True" ELSE feature_enabled

\* the value is_enabled leaves in _cache_enabled
Cached(value) == IF value THEN "True" ELSE "False"

\* the kind _update_status emits while some path is in _error_paths
ErrorKind == "warning"

\* _update_status
_update_status(st) ==
    LET en == is_enabled(st.c)
        total == Cardinality(st.o) + Cardinality({q \in PollPaths : st.t[q] # 0})
        error_count == Cardinality(st.e)
        status == IF ~en \/ ~st.r THEN [kind |-> "disabled", working |-> 0, total |-> 0]
                  ELSE IF error_count > 0
                  THEN [kind |-> ErrorKind, working |-> total - error_count, total |-> total]
                  ELSE [kind |-> "normal", working |-> total, total |-> total]
    IN [st EXCEPT !.c = Cached(en), !.status = status, !.published = TRUE]

\* LocalWatcher.add_watch: creating the observer raises when the directory
\* does not exist, and the watch is then not registered
add_watch(st, id, path) ==
    IF path \in st.o THEN st
    ELSE IF disk[id].reach = "gone" THEN st
    ELSE [st EXCEPT !.o = @ \cup {path}, !.started = @ \cup {path}]

\* NetworkPoller.add_poll on the record
AddPoll(st, folder) ==
    IF st.t[folder.path] # 0 THEN st
    ELSE [st EXCEPT
            !.m = IF folder.last_mtime # 0
                  THEN [@ EXCEPT ![folder.path] = folder.last_mtime] ELSE @,
            !.t = [@ EXCEPT ![folder.path] = folder.poll_interval_minutes * 60 * 1000],
            !.ss = @ \cup {folder.path},
            !.cf = [@ EXCEPT ![folder.path] = folder.poll_interval_minutes],
            !.started = @ \cup {folder.path}]

\* _start_folder_watch
_start_folder_watch(st, id, folder) ==
    IF ~folder.enabled THEN st
    ELSE IF folder.is_local THEN add_watch(st, id, folder.path)
    ELSE AddPoll(st, folder)

\* LocalWatcher.remove_watch: the observer is stopped and forgotten; the
\* timer of its handler is not cancelled
remove_watch(st, path) ==
    IF path \in st.o
    THEN [st EXCEPT !.o = @ \ {path}, !.stopped = @ \cup {path}]
    ELSE st

\* NetworkPoller.remove_poll on the record
StopPoll(st, path) ==
    IF path \in PollPaths /\ st.t[path] # 0
    THEN LET res == RemovePoll([t |-> st.t, m |-> st.m, r |-> st.ri, s |-> st.s], path)
         IN [st EXCEPT !.t = res.t, !.m = res.m, !.ri = res.r, !.s = res.s,
                       !.stopped = @ \cup {path}]
    ELSE st

\* _stop_folder_watch
_stop_folder_watch(st, path) ==
    [StopPoll(remove_watch(st, path), path) EXCEPT !.e = @ \ {path}]

\* the loop of start() over the enabled folders, in registry order
RECURSIVE StartFolders(_, _, _)
StartFolders(st, order, reg) ==
    IF order = <<>> THEN st
    ELSE StartFolders(_start_folder_watch(st, Head(order), reg[Head(order)]),
                      Tail(order), reg)

\* FileWatcherManager.start
Start(st) ==
    LET en == is_enabled(st.c)
        st1 == [st EXCEPT !.c = Cached(en)]
    IN IF ~en THEN _update_status(st1)
       ELSE IF st1.r THEN st1
       ELSE _update_status(
               StartFolders([st1 EXCEPT !.r = TRUE],
                            get_enabled_folders(monitored_folders), monitored_folders))

\* LocalWatcher.stop_all and NetworkPoller.stop_all
RECURSIVE StopAll(_, _)
StopAll(st, paths) ==
    IF paths = {} THEN st
    ELSE LET path == CHOOSE q \in paths : TRUE
         IN StopAll(StopPoll(remove_watch(st, path), path), paths \ {path})

\* FileWatcherManager.stop
Stop(st) ==
    _update_status(
       [StopAll([st EXCEPT !.r = FALSE], st.o \cup {q \in PollPaths : st.t[q] # 0})
          EXCEPT !.e = {}])

\* FileWatcherManager.restart: stop, a new WatcherConfig (no cached value), start
Restart(st) == Start([Stop(st) EXCEPT !.c = "None"])

\* NetworkPoller.update_interval on the record
UpdateInterval(st, path, minutes) ==
    IF st.t[path] # 0
    THEN [st EXCEPT !.t = [@ EXCEPT ![path] = minutes * 60 * 1000],
                    !.cf = [@ EXCEPT ![path] = minutes]]
    ELSE st

\* apply_config_changes for one path: added, removed, or in both lists
ApplyPath(st, id, old, new) ==
    IF id \in DOMAIN new /\ id \notin DOMAIN old
    THEN _start_folder_watch(st, id, new[id])
    ELSE IF id \in DOMAIN old /\ id \notin DOMAIN new
    THEN _stop_folder_watch(st, old[id].path)
    ELSE IF id \in DOMAIN old /\ id \in DOMAIN new
    THEN IF old[id].enabled # new[id].enabled
         THEN IF new[id].enabled THEN _start_folder_watch(st, id, new[id])
              ELSE _stop_folder_watch(st, old[id].path)
         ELSE IF ~new[id].is_local
                 /\ old[id].poll_interval_minutes # new[id].poll_interval_minutes
         THEN UpdateInterval(st, old[id].path, new[id].poll_interval_minutes)
         ELSE st
    ELSE st

RECURSIVE ApplyPaths(_, _, _, _)
ApplyPaths(st, ids, old, new) ==
    IF ids = {} THEN st
    ELSE LET id == CHOOSE i \in ids : TRUE
         IN ApplyPaths(ApplyPath(st, id, old, new), ids \ {id}, old, new)

\* FileWatcherManager.apply_config_changes
ApplyConfigChanges(st, old, new) ==
    _update_status(ApplyPaths(st, FolderIds, old, new))

\* the folder lists a caller can pass: any of the registered folders, each
\* enabled or not, the network folder with any poll interval
FolderVariants(id) ==
    { [monitored_folders[id] EXCEPT !.enabled = en, !.poll_interval_minutes = i] :
         en \in BOOLEAN,
         i \in IF monitored_folders[id].is_local THEN {DefaultPollInterval} ELSE PollIntervals }
FolderLists ==
    UNION { { f \in [S -> UNION {FolderVariants(id) : id \in S}] :
                \A id \in S : f[id] \in FolderVariants(id) } : S \in SUBSET FolderIds }

\* the path of folder id is watched by the local watcher / by the poller
LocalWatched(o, id) == monitored_folders[id].path \in o
Polled(t, id) ==
    monitored_folders[id].path \in PollPaths /\ t[monitored_folders[id].path] # 0

\* the watches are those of the enabled folders of list: each enabled folder
\* in its own sub-watcher only, the poll timer at the folder's interval
WatchesOf(list, o, t) ==
    \A id \in FolderIds :
       LET on == id \in DOMAIN list /\ list[id].enabled
       IN /\ LocalWatched(o, id) <=> (on /\ list[id].is_local)
          /\ Polled(t, id) <=> (on /\ ~list[id].is_local)
          /\ Polled(t, id) =>
                t[monitored_folders[id].path] = list[id].poll_interval_minutes * 60 * 1000

\* the record becomes the state; lastCall keeps what the call did (premise:
\* the watches were those of old when apply_config_changes began, and then
\* old and new are the lists it was given)
Commit(st, op, signals, premise, old, new) ==
    /\ _running' = st.r
    /\ _cache_enabled' = st.c
    /\ _observers' = st.o
    /\ _timers' = st.t
    /\ _last_mtime' = st.m
    /\ _retry_info' = st.ri
    /\ streak' = st.s
    /\ singleShots' = st.ss
    /\ configured' = st.cf
    /\ _error_paths' = st.e
    /\ lastStatus' = st.status
    /\ lastCall' = [op |-> op, published |-> st.published, signals |-> signals,
                    stopped |-> st.stopped, started |-> st.started,
                    premise |-> premise, old |-> old, new |-> new]

\* what no manager call touches
CallFrame ==
    <<feature_enabled, handlerTimers, now, statOk, dirMtime, lastTick,
      monitored_folders, disk, phase, lastPass, scan_requests, surfaced,
      debounceVars, indexVars, registryVars, scanVars>>

start ==
    /\ Commit(Start(Cur), "start", {}, FALSE, <<>>, <<>>)
    /\ afterStop' = FALSE
    /\ UNCHANGED CallFrame

stop ==
    /\ Commit(Stop(Cur), "stop", {}, FALSE, <<>>, <<>>)
    /\ afterStop' = TRUE
    /\ UNCHANGED CallFrame

restart ==
    /\ Commit(Restart(Cur), "restart", {}, FALSE, <<>>, <<>>)
    /\ afterStop' = FALSE
    /\ UNCHANGED CallFrame

on_global_toggle(enabled) ==
    /\ Commit(IF enabled THEN Start(Cur) ELSE Stop(Cur),
              IF enabled THEN "start" ELSE "stop", {}, FALSE, <<>>, <<>>)
    /\ afterStop' = ~enabled
    /\ UNCHANGED CallFrame

apply_config_changes ==
    \E old \in FolderLists, new \in FolderLists :
       LET premise == _running /\ WatchesOf(old, _observers, _timers)
       IN Commit(ApplyConfigChanges(Cur, old, new), "apply", {}, premise,
                 IF premise THEN old ELSE <<>>, IF premise THEN new ELSE <<>>)
       /\ UNCHANGED <<afterStop, CallFrame>>

\* failed polls in a row that the manager is followed through
MaxManagerFails == 1

\* the manager's slots for the signals of one _poll (the signals it emits in
\* turn are kept in lastCall): _on_connection_error,
\* _on_connection_restored, _on_network_changes
PollSlots(path) ==
    LET tick == lastTick'
        e1 == IF tick.connection_error THEN _error_paths \cup {path}
              ELSE IF tick.connection_restored THEN _error_paths \ {path}
              ELSE _error_paths
        st == [Cur EXCEPT !.e = e1]
        st2 == IF tick.connection_error \/ tick.connection_restored
               THEN _update_status(st) ELSE st
        id == CHOOSE i \in FolderIds : Lower(monitored_folders[i].path) = Lower(path)
        changed == tick.emitted
    IN /\ _error_paths' = st2.e
       /\ _cache_enabled' = st2.c
       /\ lastStatus' = st2.status
       /\ monitored_folders' = IF changed
                               THEN update_folder_mtime(monitored_folders, id, tick.changes_detected)
                               ELSE monitored_folders
       /\ UNCHANGED scan_requests
       /\ lastCall' = [op |-> "poll", published |-> st2.published,
                       signals |-> (IF tick.connection_error THEN {"connection_error"} ELSE {})
                                   \cup (IF tick.connection_restored THEN {"connection_restored"} ELSE {})
                                   \cup (IF changed THEN {"changes_detected", "scan_requested"} ELSE {}),
                       stopped |-> {}, started |-> {}, premise |-> FALSE,
                       old |-> <<>>, new |-> <<>>]
       /\ UNCHANGED <<feature_enabled, _running, _observers, handlerTimers, afterStop,
                      now, statOk, dirMtime, configured, disk, phase, lastPass, surfaced,
                      debounceVars, indexVars, registryVars, scanVars>>

\* the QTimer of a polled path times out
ManagerTimerPoll(path) ==
    /\ _timers[path] # 0
    /\ statOk[path] \/ _retry_info[path].fail_count < MaxManagerFails
    /\ _poll(path)
    /\ UNCHANGED singleShots
    /\ PollSlots(path)

\* the singleShot of add_poll fires, whatever happened to the poll since
ManagerSingleShotPoll(path) ==
    /\ path \in singleShots
    /\ statOk[path] \/ _retry_info[path].fail_count < MaxManagerFails
    /\ singleShots' = singleShots \ {path}
    /\ _poll(path)
    /\ PollSlots(path)

\* a file event in a watched directory: the handler arms its Timer
LocalEvent(id) ==
    /\ monitored_folders[id].path \in _observers
    /\ disk[id].reach # "gone"
    /\ monitored_folders[id].path \notin handlerTimers
    /\ handlerTimers' = handlerTimers \cup {monitored_folders[id].path}
    /\ UNCHANGED <<feature_enabled, _cache_enabled, _observers, _error_paths, lastStatus,
                   lastCall, afterStop, pollerVars, reconcileVars, debounceVars,
                   indexVars, registryVars, scanVars>>

\* the Timer of a handler fires: _flush_events, LocalWatcher._on_events and
\* the manager's _on_local_changes; remove_watch has not cancelled it
HandlerTimerFires(id) ==
    LET path == monitored_folders[id].path
    IN /\ path \in handlerTimers
       /\ handlerTimers' = handlerTimers \ {path}
       /\ monitored_folders' =
             IF disk[id].reach # "gone"
             THEN update_folder_mtime(monitored_folders, id, disk[id].mtime)
             ELSE monitored_folders
       /\ UNCHANGED scan_requests
       /\ lastCall' = [op |-> "local", published |-> FALSE,
                       signals |-> {"changes_detected", "scan_requested"},
                       stopped |-> {}, started |-> {}, premise |-> FALSE,
                       old |-> <<>>, new |-> <<>>]
       /\ UNCHANGED <<feature_enabled, _cache_enabled, _observers, _error_paths, lastStatus,
                      afterStop, pollerVars, disk, phase, lastPass, _running, surfaced,
                      debounceVars, indexVars, registryVars, scanVars>>

\* the settings dialog saves through its own WatcherConfig: set_enabled
DialogSetEnabled(enabled) ==
    /\ feature_enabled # enabled
    /\ feature_enabled' = enabled
    /\ UNCHANGED <<_cache_enabled, _observers, handlerTimers, _error_paths, lastStatus,
                   lastCall, afterStop, pollerVars, reconcileVars, debounceVars,
                   indexVars, registryVars, scanVars>>

\* the settings dialog saves a folder whose box was ticked or unticked:
\* update_folder(enabled)
DialogUpdateFolder(id, enabled) ==
    /\ monitored_folders[id].enabled # enabled
    /\ monitored_folders' = [monitored_folders EXCEPT ![id].enabled = enabled]
    /\ UNCHANGED <<managerVars, pollerVars, disk, phase, lastPass, _running,
                   scan_requests, surfaced, debounceVars, indexVars, registryVars, scanVars>>

ManagerIdle ==
    /\ feature_enabled = TRUE
    /\ _cache_enabled = "None"
    /\ _observers = {}
    /\ handlerTimers = {}
    /\ _error_paths = {}
    /\ lastStatus = NoStatus
    /\ lastCall = NoCall
    /\ afterStop = FALSE

\* a manager just constructed over a registry with both folders, checked
\* once already, each enabled or not, the toggle on or off, the local
\* directory there or not
ManagerInit ==
    /\ feature_enabled \in BOOLEAN
    /\ _cache_enabled = "None"
    /\ _observers = {}
    /\ handlerTimers = {}
    /\ _error_paths = {}
    /\ lastStatus = NoStatus
    /\ lastCall = NoCall
    /\ afterStop = FALSE
    /\ \E e1 \in BOOLEAN, e2 \in BOOLEAN :
          monitored_folders =
             (1 :> MonitoredRow(LocalPath, 1, e1) @@ 2 :> MonitoredRow(NetPath, 1, e2))
    /\ \E r \in {"ok", "gone"} :
          disk = [id \in FolderIds |-> [mtime |-> 1, reach |-> IF id = 1 THEN r ELSE "ok"]]
    /\ phase = "start"
    /\ lastPass = NoPass
    /\ _running = FALSE
    /\ scan_requests = {}
    /\ surfaced = NoSurfaced

ManagerNext ==
    \/ start
    \/ stop
    \/ restart
    \/ \E enabled \in BOOLEAN : on_global_toggle(enabled)
    \/ \E path \in PollPaths : ManagerTimerPoll(path)
    \/ \E path \in PollPaths : ManagerSingleShotPoll(path)
    \/ \E id \in FolderIds : LocalEvent(id)
    \/ \E id \in FolderIds : HandlerTimerFires(id)
    \/ \E enabled \in BOOLEAN : DialogSetEnabled(enabled)
    \/ \E id \in FolderIds, enabled \in BOOLEAN : DialogUpdateFolder(id, enabled)
    \/ \E path \in PollPaths : ShareFlip(path)
    \/ \E path \in PollPaths, m \in Mtimes : DirTouch(path, m)
    \/ \E r \in {"ok", "gone"} : ReachChange(1, r)

\* apply_config_changes has no caller in the program; it is followed on its
\* own, over a manager that is started and stopped
ApplyNext ==
    \/ start
    \/ stop
    \/ apply_config_changes
    \/ \E r \in {"ok", "gone"} : ReachChange(1, r)


(***************************************************************************)
(* The folder registry: WatcherConfig over monitored_folders               *)
(* (watcher/config.py)                                                     *)
(***************************************************************************)
MaxMonitoredId == 3

\* the paths callers give: a folder, the same folder with forward slashes
\* and a trailing one, in another case, a subfolder, a sibling whose name
\* begins with the folder's name, and a share written with either slash
RegistryPaths ==
    { LocalPath,
      <<"c", ":", "/", "d", "/">>,
      <<"c", ":", Sep, "D">>,
      LocalPath \o <<Sep, "s">>,
      LocalPath \o <<"b">>,
      NetPath,
      <<"/", "/", "n", "/">> }

NoReg == [op |-> "none", arg |-> <<>>, result |-> 0, before |-> <<>>]

\* path.replace('/', '\\').rstrip('\\')
NormalizePath(path) == RStrip(ReplaceSlash(path), {Sep})

\* the row with key id taken out of the table
WithoutIds(reg, ids) == [i \in DOMAIN reg \ ids |-> reg[i]]

\* what no registry call touches
RegistryFrame ==
    <<disk, phase, lastPass, _running, scan_requests, surfaced,
      debounceVars, pollerVars, indexVars, managerVars, scanVars>>

\* add_folder: the INSERT fails on UNIQUE(path), which compares the text as
\* stored (BINARY collation), and None is returned
add_folder(path) ==
    LET norm == NormalizePath(path)
        clash == \E i \in DOMAIN monitored_folders : monitored_folders[i].path = norm
    IN /\ nextMonitoredId <= MaxMonitoredId
       /\ monitored_folders' =
             IF clash THEN monitored_folders
             ELSE [i \in DOMAIN monitored_folders \cup {nextMonitoredId} |->
                      IF i = nextMonitoredId THEN MonitoredRow(path, 0, TRUE)
                      ELSE monitored_folders[i]]
       /\ nextMonitoredId' = IF clash THEN nextMonitoredId ELSE nextMonitoredId + 1
       /\ lastReg' = [op |-> "add_folder", arg |-> path,
                      result |-> IF clash THEN 0 ELSE nextMonitoredId,
                      before |-> monitored_folders]
       /\ UNCHANGED RegistryFrame

\* remove_folder
remove_folder(folder_id) ==
    /\ monitored_folders' = WithoutIds(monitored_folders, {folder_id})
    /\ lastReg' = [op |-> "remove_folder", arg |-> folder_id,
                   result |-> IF folder_id \in DOMAIN monitored_folders THEN 1 ELSE 0,
                   before |-> monitored_folders]
    /\ UNCHANGED <<nextMonitoredId, RegistryFrame>>

\* remove_folder_by_path: DELETE ... WHERE path COLLATE NOCASE = ?
remove_folder_by_path(path) ==
    LET norm == NormalizePath(path)
        hit == {i \in DOMAIN monitored_folders :
                   Lower(monitored_folders[i].path) = Lower(norm)}
    IN /\ monitored_folders' = WithoutIds(monitored_folders, hit)
       /\ lastReg' = [op |-> "remove_folder_by_path", arg |-> path,
                      result |-> IF hit # {} THEN 1 ELSE 0,
                      before |-> monitored_folders]
       /\ UNCHANGED <<nextMonitoredId, RegistryFrame>>

\* mutant of IsUnder: the prefix test without the separator
IsUnderNoSeparator(path, folder_path) == StartsWith(path, folder_path)

\* path.startswith(folder_path + '\\')
IsUnder(path, folder_path) == StartsWith(path, folder_path \o <<Sep>>)

\* find_parent_child_conflicts on the table reg, the folders by id
Conflicts(reg, path) ==
    LET new_path == Lower(NormalizePath(path))
        parent == {i \in DOMAIN reg : IsUnder(new_path, Lower(reg[i].path))}
    IN [parent |-> parent,
        children |-> {i \in DOMAIN reg \ parent : IsUnder(Lower(reg[i].path), new_path)}]

find_parent_child_conflicts(path) ==
    /\ lastReg' = [op |-> "find_parent_child_conflicts", arg |-> path,
                   result |-> Conflicts(monitored_folders, path),
                   before |-> monitored_folders]
    /\ UNCHANGED <<monitored_folders, nextMonitoredId, RegistryFrame>>

\* merge_to_parent: remove_folder(child.id) for each listed child
merge_to_parent(parent_path, children) ==
    /\ monitored_folders' = WithoutIds(monitored_folders, children)
    /\ lastReg' = [op |-> "merge_to_parent", arg |-> children, result |-> 0,
                   before |-> monitored_folders]
    /\ UNCHANGED <<nextMonitoredId, RegistryFrame>>

\* in the other components no registry call is followed: both folders are
\* registered
RegistryIdle ==
    /\ nextMonitoredId = 3
    /\ lastReg = NoReg

\* an empty monitored_folders table
RegistryInit ==
    /\ monitored_folders = <<>>
    /\ nextMonitoredId = 1
    /\ lastReg = NoReg
    /\ disk = [id \in FolderIds |-> [mtime |-> 1, reach |-> "ok"]]
    /\ phase = "start"
    /\ lastPass = NoPass
    /\ _running = FALSE
    /\ scan_requests = {}
    /\ surfaced = NoSurfaced

RegistryNext ==
    \/ \E path \in RegistryPaths : add_folder(path)
    \/ \E id \in 1..MaxMonitoredId : remove_folder(id)
    \/ \E path \in RegistryPaths : remove_folder_by_path(path)
    \/ \E path \in RegistryPaths : find_parent_child_conflicts(path)
    \/ \E path \in RegistryPaths, children \in SUBSET (1..MaxMonitoredId) :
          merge_to_parent(path, children)

(***************************************************************************)
(* Rescans: the scanner thread, the scan queue of the main window and the  *)
(* UI handlers that write to the index (ui/mixins/scanner_mixin.py,        *)
(* ui/mixins/watcher_mixin.py, ui/mixins/folder_tree_mixin.py,             *)
(* scanner/file_scanner.py). Which rows a rescan writes is followed in     *)
(* SpecIndex; here it is who is writing, and when.                         *)
(***************************************************************************)
ScanPaths == {LocalPath, NetPath}
\* the lists a scan request carries: one folder (FileWatcherManager), or
\* several (WatcherDialog)
ScanRequests == {<<path>> : path \in ScanPaths} \cup {<<LocalPath, NetPath>>}

Range(seq) == {seq[i] : i \in 1..Len(seq)}

ScanFrame ==
    <<debounceVars, pollerVars, indexVars, reconcileVars, managerVars, registryVars>>

\* the progress dialog of a scan started by _start_scan is modal: while such
\* a scan runs the main window takes no user input
ModalOpen ==
    \E thread \in {scanner_thread, orphan} : isRunning(thread) /\ thread.handler = "normal"

\* _on_watcher_scan_requested, the slot of scan_requested, once the startup
\* check is over
_on_watcher_scan_requested(paths) ==
    /\ uiPc = "idle"
    /\ phase \in {"checked", "watching"}
    /\ ScanCommit(IF silent_update THEN _on_multi_scan_silent(ScanCur, paths)
                  ELSE _on_multi_scan_requested(ScanCur, paths),
                  "_on_watcher_scan_requested", Range(paths), {})
    /\ UNCHANGED <<finishedPosted, silent_update, uiPc, ScanFrame>>

\* _on_scan_finished, run by the event loop for the oldest finished signal
_on_scan_finished ==
    /\ uiPc = "idle"
    /\ finishedPosted # <<>> /\ Head(finishedPosted) = "normal"
    /\ finishedPosted' = Tail(finishedPosted)
    /\ ScanCommit(IF Len(scan_queue) > 0 THEN _scan_next_in_queue(ScanCur) ELSE ScanCur,
                  "_on_scan_finished", {}, {})
    /\ UNCHANGED <<silent_update, uiPc, ScanFrame>>

\* _on_silent_scan_finished
_on_silent_scan_finished ==
    /\ uiPc = "idle"
    /\ finishedPosted # <<>> /\ Head(finishedPosted) = "silent"
    /\ finishedPosted' = Tail(finishedPosted)
    /\ ScanCommit(_start_next_scan_silent(ScanCur), "_on_silent_scan_finished", {}, {})
    /\ UNCHANGED <<silent_update, uiPc, ScanFrame>>

\* the two thread objects that can be running
ThreadOf(which) == IF which = "scanner_thread" THEN scanner_thread ELSE orphan
SetThread(which, thread) ==
    /\ scanner_thread' = IF which = "scanner_thread" THEN thread ELSE scanner_thread
    /\ orphan' = IF which = "orphan" THEN thread ELSE orphan

\* FileScanner.scan_path in the scanner thread: db.clear_source(scan_source),
\* the first write of the rescan
ScanClearSource(which) ==
    /\ ThreadOf(which).pc = "clear_source"
    /\ SetThread(which, [ThreadOf(which) EXCEPT !.pc = "walk"])
    /\ UNCHANGED <<finishedPosted, scan_queue, _silent_scan_mode, silent_update, uiPc,
                   requested, lastScan, ScanFrame>>

\* scan_path: the walk and its batch_insert calls are over, the last batch
\* is flushed and finished is emitted to the UI thread
ScanEmitFinished(which) ==
    /\ ThreadOf(which).pc = "walk"
    /\ Len(finishedPosted) < MaxPosted
    /\ SetThread(which, [ThreadOf(which) EXCEPT !.pc = "emitted"])
    /\ finishedPosted' = Append(finishedPosted, ThreadOf(which).handler)
    /\ UNCHANGED <<scan_queue, _silent_scan_mode, silent_update, uiPc, requested, lastScan,
                   ScanFrame>>

\* ScannerThread.run returns
ThreadExit(which) ==
    /\ ThreadOf(which).pc = "emitted"
    /\ SetThread(which, IF which = "orphan" THEN NoThread
                        ELSE [ThreadOf(which) EXCEPT !.pc = "exited"])
    /\ UNCHANGED <<finishedPosted, scan_queue, _silent_scan_mode, silent_update, uiPc,
                   requested, lastScan, ScanFrame>>

\* _delete_folder_index for a folder that is not monitored, confirmed with
\* Yes, up to its call of db.clear_source ...
DeleteIndexBegin ==
    /\ uiPc = "idle"
    /\ phase \in {"checked", "watching"}
    /\ ~ModalOpen
    /\ uiPc' = "clear_source"
    /\ UNCHANGED <<scanner_thread, orphan, finishedPosted, scan_queue, _silent_scan_mode,
                   silent_update, requested, lastScan, ScanFrame>>

\* ... and from the return of db.clear_source on
DeleteIndexEnd ==
    /\ uiPc = "clear_source"
    /\ uiPc' = "idle"
    /\ UNCHANGED <<scanner_thread, orphan, finishedPosted, scan_queue, _silent_scan_mode,
                   silent_update, requested, lastScan, ScanFrame>>

\* WatcherConfig.set_silent_update, from the settings of the watcher dialog
set_silent_update(enabled) ==
    /\ uiPc = "idle"
    /\ phase \in {"checked", "watching"}
    /\ ~ModalOpen
    /\ silent_update # enabled
    /\ silent_update' = enabled
    /\ UNCHANGED <<scanner_thread, orphan, finishedPosted, scan_queue, _silent_scan_mode,
                   uiPc, requested, lastScan, ScanFrame>>

\* in the other components no scan is under way
ScanIdle ==
    /\ scanner_thread = NoThread
    /\ orphan = NoThread
    /\ finishedPosted = <<>>
    /\ scan_queue = <<>>
    /\ _silent_scan_mode = FALSE
    /\ silent_update = FALSE
    /\ uiPc = "idle"
    /\ requested = {}
    /\ lastScan = NoScan

\* a process start with both folders registered and checked before, both
\* directories changed since and not enumerable, one of the index states;
\* silent update on or off
ScanInit ==
    /\ scanner_thread = NoThread
    /\ orphan = NoThread
    /\ finishedPosted = <<>>
    /\ scan_queue = <<>>
    /\ _silent_scan_mode = FALSE
    /\ silent_update \in BOOLEAN
    /\ uiPc = "idle"
    /\ requested = {}
    /\ lastScan = NoScan
    /\ monitored_folders = (1 :> MonitoredRow(LocalPath, 1, TRUE)
                            @@ 2 :> MonitoredRow(NetPath, 1, TRUE))
    /\ disk = [id \in FolderIds |-> [mtime |-> 2, reach |-> "no_enum"]]
    /\ \E ix \in IndexStates :
          /\ folders = ix.folders
          /\ files = ix.files
          /\ nextFolderId = ix.nextFolderId
          /\ nextFileId = ix.nextFileId
    /\ lastOp = NoOp
    /\ phase = "start"
    /\ lastPass = NoPass
    /\ _running = FALSE
    /\ scan_requests = {}
    /\ surfaced = NoSurfaced

ScanThreads == {"scanner_thread", "orphan"}

ScanNext ==
    \/ _check_watcher_on_startup
    \/ \E a \in {"all", "select", "later"} : _show_change_alert(a)
    \/ \E paths \in ScanRequests : _on_watcher_scan_requested(paths)
    \/ _on_scan_finished
    \/ _on_silent_scan_finished
    \/ \E which \in ScanThreads : ScanClearSource(which)
    \/ \E which \in ScanThreads : ScanEmitFinished(which)
    \/ \E which \in ScanThreads : ThreadExit(which)
    \/ DeleteIndexBegin
    \/ DeleteIndexEnd
    \/ \E enabled \in BOOLEAN : set_silent_update(enabled)

InitDebounce == DebounceInit /\ PollerIdle /\ IndexEmpty /\ ReconcileIdle /\ ManagerIdle /\ RegistryIdle /\ ScanIdle

SpecDebounce == InitDebounce /\ [][DebounceNext]_vars

\* C1: when every event of a debounce window was recorded before the timer
\* fired, the flushed batch holds exactly one FileEvent for each path that
\* had events in the window, of the type of the last event of that path,
\* and none for the other paths.
C1_DebounceCollapse ==
    (lastBatch # {} /\ ~lastBatchWin.raced) =>
        \A p \in SrcPaths :
            LET es == {e \in lastBatch : e.src_path = p}
            IN IF lastBatchWin.last[p] = "none"
               THEN es = {}
               ELSE /\ Cardinality(es) = 1
                    /\ \A e \in es : e.event_type = lastBatchWin.last[p]

\* a batch was emitted for a window in which one path saw several events of
\* different types
C1_Witness ==
    /\ lastBatch # {}
    /\ ~lastBatchWin.raced
    /\ lastBatchWin.mixed

InitPoller == PollerIdle /\ DebounceInit /\ IndexEmpty /\ ReconcileIdle /\ ManagerIdle /\ RegistryIdle /\ ScanIdle

SpecPoller == InitPoller /\ [][PollerNext]_vars

\* C3: on the first successful tick after failed ticks of a polled path the
\* retry state is removed, connection_restored is emitted and the timer
\* interval is the poll interval configured for the folder.
C3_RestoreConfiguredInterval ==
    (lastTick.kind = "ok" /\ lastTick.afterFailures /\ lastTick.polled) =>
        /\ _retry_info[lastTick.path] = NoRetry
        /\ lastTick.connection_restored
        /\ lastTick.timerAfter = configured[lastTick.path] * 60 * 1000

\* the retry ladder as the claim states it
C4_Ladder(elapsed) ==
    CASE elapsed < 120 -> 5
      [] elapsed >= 120 /\ elapsed < 600 -> 30
      [] OTHER -> 300

\* C4: a failed tick of a polled path sets its timer to 5 s, 30 s or 300 s
\* according to the time elapsed since the first failure of the streak, and
\* the retry interval of a streak never decreases from one failed tick to
\* the next.
C4_BackoffLadder ==
    (lastTick.kind = "fail" /\ lastTick.polled) =>
        LET st == streak[lastTick.path]
        IN (st.start >= 0) =>
            /\ lastTick.timerAfter = C4_Ladder(lastTick.time - st.start) * 1000
            /\ st.cur * 1000 = lastTick.timerAfter
            /\ st.prev <= st.cur

\* a streak of failed ticks has climbed the ladder from 5 s over 30 s to 300 s
C4_Witness ==
    /\ lastTick.kind = "fail"
    /\ lastTick.polled
    /\ streak[lastTick.path].prev = 30
    /\ streak[lastTick.path].cur = 300
    /\ _retry_info[lastTick.path].fail_count = 3

InitIndex == IndexEmpty /\ DebounceInit /\ PollerIdle /\ ReconcileIdle /\ ManagerIdle /\ RegistryIdle /\ ScanIdle

SpecIndex == InitIndex /\ [][IndexNext]_vars

\* two paths name the same directory: they differ only in separator style,
\* trailing separator or letter case
EquivalentPaths(p, q) ==
    Lower(RStrip(ReplaceSlash(p), {Sep})) = Lower(RStrip(ReplaceSlash(q), {Sep}))

\* C5: get_or_create_folder returns, for every path equivalent to the one
\* given, the id of the one folders row of that directory.
C5_DedupIdempotent ==
    (lastOp.op \in {"insert_file", "add_or_update_file"}) =>
        {f.id : f \in {g \in folders : EquivalentPaths(g.path, lastOp.arg)}} = {lastOp.result}

\* the indexed direct children of parent path p
DirectChildren(p) ==
    LET parent == Lower(RStrip(ReplaceSlash(p), {Sep}))
    IN {f \in folders :
           /\ StartsWith(Lower(f.path), parent \o <<Sep>>)
           /\ Len(f.path) > Len(parent) + 1
           /\ Sep \notin Chars(SubSeq(f.path, Len(parent) + 2, Len(f.path)))}

\* C6: get_direct_subdirs(P) returns exactly the indexed folders whose path
\* is P, one separator and one path component.
C6_DirectSubdirsExact ==
    (lastOp.op = "get_direct_subdirs") =>
        {Lower(r.path) : r \in lastOp.result} = {Lower(f.path) : f \in DirectChildren(lastOp.arg)}

\* C7: clear_source(P) removes exactly the folders at or under P and the
\* files they own, and leaves every other row unchanged.
C7_ClearSourceExact ==
    [][ (lastOp'.op = "clear_source") =>
          LET parent == Lower(RStrip(ReplaceSlash(lastOp'.arg), {Sep}))
              doomed == {f \in folders : \/ Lower(f.path) = parent
                                         \/ StartsWith(Lower(f.path), parent \o <<Sep>>)}
          IN /\ folders' = folders \ doomed
             /\ files' = {x \in files : x.folder_id \notin {f.id : f \in doomed}} ]_vars

\* a get_direct_subdirs answer with the letter case of its paths folded
FoldCase(result) ==
    {[name |-> Lower(r.name), path |-> Lower(r.path), has_children |-> r.has_children]
        : r \in result}

\* C8: the answer of get_direct_subdirs lists the same name, path and
\* has_children entries as its LIKE fallback does on the same index,
\* whichever of the two lookups produced it.
C8_SubdirRoutesAgree ==
    (lastOp.op = "get_direct_subdirs") =>
        FoldCase(lastOp.result) =
            FoldCase(SubdirsByLike(RStrip(ReplaceSlash(lastOp.arg), {Sep})))

\* C9: the files table holds at most one row per (folder_id, filename).
C9_FileRowUnique ==
    \A x, y \in files :
        (x.folder_id = y.folder_id /\ x.filename = y.filename) => x = y

InitReconcile == ReconcileInit /\ DebounceInit /\ PollerIdle /\ ManagerIdle /\ RegistryIdle /\ ScanIdle

SpecReconcile == InitReconcile /\ [][ReconcileNext]_vars

\* the indexed files at or under the folder, as [path, mtime] with the path
\* lower-cased
TrueIndexed(id) ==
    LET root == Lower(monitored_folders[id].path)
    IN {[path |-> Lower(fo.path \o <<Sep>> \o x.filename), mtime |-> x.mtime]
          : <<x, fo>> \in {y \in files \X folders :
                  /\ y[1].folder_id = y[2].id
                  /\ \/ Lower(y[2].path) = root
                     \/ StartsWith(Lower(y[2].path), root \o <<Sep>>)}}

\* the live files under the folder, as [path, mtime] with the path lower-cased
TrueLive(id) ==
    {[path |-> Lower(c.path), mtime |-> c.mtime] : c \in LiveFiles(id, disk[id].mtime)}

\* the folder is enabled, readable, indexed, and its mtime differs from the
\* last_mtime recorded for it
DiffDue(id) ==
    /\ monitored_folders[id].enabled
    /\ disk[id].reach = "ok"
    /\ \E fo \in folders :
          \/ Lower(fo.path) = Lower(monitored_folders[id].path)
          \/ StartsWith(Lower(fo.path), Lower(monitored_folders[id].path) \o <<Sep>>)
    /\ monitored_folders[id].last_mtime # 0
    /\ monitored_folders[id].last_mtime # disk[id].mtime

\* C2: a reconciliation pass reports, for every indexed folder whose mtime
\* differs from last_mtime, added_count = |L - I|, deleted_count = |I - L|
\* and modified_count = the number of common paths whose mtimes differ.
C2_DiffCounts ==
    [][ (phase = "start" /\ phase' # "start") =>
          \A id \in FolderIds :
             DiffDue(id) =>
                LET L == {c.path : c \in TrueLive(id)}
                    I == {x.path : x \in TrueIndexed(id)}
                    M == {p \in L \cap I :
                            \E c \in TrueLive(id), x \in TrueIndexed(id) :
                               c.path = p /\ x.path = p /\ c.mtime # x.mtime}
                IN \E ch \in lastPass'.changed :
                      /\ ch.id = id
                      /\ ch.added_count = Cardinality(L \ I)
                      /\ ch.deleted_count = Cardinality(I \ L)
                      /\ ch.modified_count = Cardinality(M) ]_vars

C11_PassAlwaysReturns ==
    [][ (phase = "start" /\ phase' # "start"
            /\ get_enabled_folders(monitored_folders) # <<>>) =>
          /\ lastPass'.status = "returned"
          /\ \A id \in FolderIds :
                (monitored_folders[id].enabled /\ disk[id].reach = "gone") =>
                   \E e \in lastPass'.errors : e.id = id /\ ~e.accessible
          /\ \A id \in FolderIds :
                (/\ monitored_folders[id].enabled
                 /\ disk[id].reach # "gone"
                 /\ ~_folder_in_index(monitored_folders[id].path)) =>
                   \E ch \in lastPass'.changed : ch.id = id /\ ch.is_new_folder ]_vars

(***************************************************************************)
(* The watcher manager                                                     *)
(***************************************************************************)
InitManager == ManagerInit /\ DebounceInit /\ PollerIdle /\ IndexEmpty /\ RegistryIdle /\ ScanIdle

SpecManager == InitManager /\ [][ManagerNext]_vars

SpecApply == InitManager /\ [][ApplyNext]_vars

DeliveredAfterStop == {"changes_detected", "scan_requested", "connection_error"}

\* C12: when stop() has returned the manager is not running, has no local
\* watch, no polled path and an empty error-path set; and as long as start()
\* is not called, no changes_detected, scan_requested or connection_error is
\* delivered and the error-path set stays empty.
C12_QuietAfterStop ==
    /\ lastCall.op = "stop" =>
          /\ ~_running
          /\ _observers = {}
          /\ \A q \in PollPaths : _timers[q] = 0
          /\ _error_paths = {}
    /\ afterStop =>
          /\ lastCall.signals \cap DeliveredAfterStop = {}
          /\ _error_paths = {}

\* C13: start() on a stopped manager leaves it stopped with no watch when
\* the enabled toggle is off; when the toggle is on the manager is running,
\* every enabled folder is watched by exactly one sub-watcher (the local
\* watcher when is_local, the poller otherwise) and a disabled folder by
\* neither.
C13_StartDispatch ==
    [][ (~_running /\ lastCall'.op = "start") =>
          IF ~is_enabled(_cache_enabled)
          THEN /\ ~_running'
               /\ _observers' = {}
               /\ \A q \in PollPaths : _timers'[q] = 0
          ELSE /\ _running'
               /\ \A id \in FolderIds :
                     LET folder == monitored_folders[id]
                     IN /\ LocalWatched(_observers', id) <=> (folder.enabled /\ folder.is_local)
                        /\ Polled(_timers', id) <=> (folder.enabled /\ ~folder.is_local) ]_vars

\* a step that leaves the persisted settings, the disk and the armed handler
\* timers alone: a step of the manager itself
ManagerStep ==
    UNCHANGED <<feature_enabled, monitored_folders, statOk, dirMtime, disk, handlerTimers>>

\* C14: after restart() the manager is running if and only if the persisted
\* toggle is on, and its watches are those of the persisted enabled folders,
\* whatever the manager's configuration object had cached before.
C14_RestartReflectsRegistry ==
    [][ (lastCall'.op = "restart" /\ ManagerStep) =>
          /\ _running' <=> feature_enabled
          /\ \A id \in FolderIds :
                LET folder == monitored_folders[id]
                IN /\ LocalWatched(_observers', id)
                         <=> (feature_enabled /\ folder.enabled /\ folder.is_local)
                   /\ Polled(_timers', id)
                         <=> (feature_enabled /\ folder.enabled /\ ~folder.is_local) ]_vars

\* C15: when the watches of a running manager are those of the enabled
\* folders of old, after apply_config_changes(old, new) they are those of
\* the enabled folders of new, each polled folder at its new interval, and
\* the watch of a folder that is the same in old and new was neither stopped
\* nor started.
C15_ApplyMinimalDiff ==
    [][ (lastCall'.op = "apply" /\ lastCall'.premise /\ ManagerStep) =>
          LET old == lastCall'.old
              new == lastCall'.new
          IN /\ WatchesOf(new, _observers', _timers')
             /\ \A id \in DOMAIN old \cap DOMAIN new :
                   old[id] = new[id] =>
                      old[id].path \notin lastCall'.stopped \cup lastCall'.started ]_vars

\* the status the derivation gives: disabled when the toggle is off or the
\* manager is stopped, error with working = total - paths in backoff when a
\* path is in backoff, normal otherwise
DerivedStatus(enabled, running, o, t, e) ==
    LET total == Cardinality(o) + Cardinality({q \in PollPaths : t[q] # 0})
    IN IF ~enabled \/ ~running THEN [kind |-> "disabled", working |-> 0, total |-> 0]
       ELSE IF e # {}
       THEN [kind |-> "error", working |-> total - Cardinality(e), total |-> total]
       ELSE [kind |-> "normal", working |-> total, total |-> total]

\* C16: every status the manager publishes is the derived one (disabled,
\* error with its working/total count, or normal), and every change of the
\* watch membership or of the error-path set comes with a published status.
C16_StatusDerivation ==
    [][ /\ (lastCall'.published /\ ManagerStep) =>
              lastStatus' = DerivedStatus(is_enabled(_cache_enabled'), _running',
                                          _observers', _timers', _error_paths')
        /\ (\/ _observers' # _observers
            \/ \E q \in PollPaths : (_timers'[q] # 0) # (_timers[q] # 0)
            \/ _error_paths' # _error_paths) => lastCall'.published ]_vars

(***************************************************************************)
(* The folder registry                                                     *)
(***************************************************************************)
InitRegistry == RegistryInit /\ DebounceInit /\ PollerIdle /\ IndexEmpty /\ ManagerIdle /\ ScanIdle

SpecRegistry == InitRegistry /\ [][RegistryNext]_vars

\* the components of a path: the text between separators
RECURSIVE Components(_)
Components(path) ==
    IF path = <<>> THEN << <<>> >>
    ELSE LET rest == Components(Tail(path))
         IN IF Head(path) = Sep THEN << <<>> >> \o rest
            ELSE << <<Head(path)>> \o Head(rest) >> \o Tail(rest)

\* folder a is a proper ancestor of folder b: the components of a, without
\* regard to case, are the first components of b, and b has more
ProperAncestor(a, b) ==
    LET ca == Components(Lower(NormalizePath(a)))
        cb == Components(Lower(NormalizePath(b)))
    IN Len(ca) < Len(cb) /\ SubSeq(cb, 1, Len(ca)) = ca

\* C17: find_parent_child_conflicts(P) lists under parent exactly the
\* registered proper ancestors of P and under children exactly the registered
\* proper descendants of P; after merge_to_parent(P, children) the listed
\* children are gone and every other registration is as it was.
C17_ConflictsAndMerge ==
    /\ lastReg.op = "find_parent_child_conflicts" =>
          /\ lastReg.result.parent =
                {i \in DOMAIN monitored_folders :
                    ProperAncestor(monitored_folders[i].path, lastReg.arg)}
          /\ lastReg.result.children =
                {i \in DOMAIN monitored_folders :
                    ProperAncestor(lastReg.arg, monitored_folders[i].path)}
    /\ lastReg.op = "merge_to_parent" =>
          /\ DOMAIN monitored_folders = DOMAIN lastReg.before \ lastReg.arg
          /\ \A i \in DOMAIN monitored_folders : monitored_folders[i] = lastReg.before[i]

\* a parent was looked up while a descendant and a sibling with the same
\* beginning were registered
C17_Witness ==
    /\ lastReg.op = "find_parent_child_conflicts"
    /\ lastReg.arg = <<"c", ":", "/", "d", "/">>
    /\ lastReg.result.children # {}
    /\ \E i \in DOMAIN monitored_folders : monitored_folders[i].path = LocalPath \o <<"b">>

\* C18: no two rows of monitored_folders have the same path once separators
\* are normalized and case is ignored, and add_folder of a path that is
\* registered already returns None and leaves the table as it was.
C18_RegistryPathsUnique ==
    /\ \A i \in DOMAIN monitored_folders, j \in DOMAIN monitored_folders :
          i # j => Lower(NormalizePath(monitored_folders[i].path))
                     # Lower(NormalizePath(monitored_folders[j].path))
    /\ (/\ lastReg.op = "add_folder"
        /\ \E i \in DOMAIN lastReg.before :
              Lower(NormalizePath(lastReg.before[i].path)) = Lower(NormalizePath(lastReg.arg)))
          => (lastReg.result = 0 /\ monitored_folders = lastReg.before)

\* C19: every folders row whose path has a parent component has a parent_id
\* that is the id of the row of that parent path, and every stored path has
\* backslashes only and no trailing separator.
C19_ParentIdResolves ==
    \A f \in folders :
       /\ "/" \notin Chars(f.path)
       /\ f.path # <<>> /\ f.path[Len(f.path)] # Sep
       /\ Sep \in Chars(f.path) =>
             \E parent \in folders :
                /\ parent.id = f.parent_id
                /\ parent.path = AllButLastComponent(f.path)

\* the folder is enabled, reachable, indexed, and its directory mtime is the
\* recorded one
UnchangedFolder(id) ==
    /\ monitored_folders[id].enabled
    /\ disk[id].reach # "gone"
    /\ _folder_in_index(monitored_folders[id].path)
    /\ monitored_folders[id].last_mtime # 0
    /\ disk[id].mtime = monitored_folders[id].last_mtime

\* C20: a pass puts an enabled, accessible, indexed folder whose directory
\* mtime equals the recorded last_mtime in neither changed nor errors, does
\* not call update_folder_mtime for it, and leaves its registry row as it was.
C20_UnchangedFolderUntouched ==
    [][ (phase = "start" /\ phase' # "start") =>
          \A id \in FolderIds :
             UnchangedFolder(id) =>
                /\ id \notin ChangedIds(lastPass')
                /\ \A e \in lastPass'.errors : e.id # id
                /\ id \notin lastPass'.updated
                /\ monitored_folders'[id] = monitored_folders[id] ]_vars

\* a pass has returned that visited an unchanged folder and found another
\* folder to report
C20_Witness ==
    /\ phase = "alert"
    /\ lastPass.status = "returned"
    /\ lastPass.changed # {}
    /\ \E id \in FolderIds :
          /\ UnchangedFolder(id)
          /\ id \notin ChangedIds(lastPass)

\* the two shapes of a path as the caller wrote it: a share begins with two
\* backslashes or two forward slashes, a drive path with a letter, a colon
\* and a separator
ShareShape(path) == StartsWith(path, <<Sep, Sep>>) \/ StartsWith(path, <<"/", "/">>)
DriveShape(path) ==
    /\ Len(path) >= 3
    /\ LowerChar(path[1]) \in {"c", "d"}
    /\ path[2] = ":"
    /\ path[3] \in {Sep, "/"}

\* C21: the row add_folder inserts has is_local = false when the given path
\* begins with \\ or //, and is_local = true when it has the shape X:\...;
\* the classification is a function of the text of the path alone.
C21_ClassifiedByShape ==
    (lastReg.op = "add_folder" /\ lastReg.result # 0) =>
        LET row == monitored_folders[lastReg.result]
        IN /\ ShareShape(lastReg.arg) => ~row.is_local
           /\ DriveShape(lastReg.arg) => row.is_local
           /\ \A i \in DOMAIN monitored_folders :
                 monitored_folders[i].path = row.path
                     => monitored_folders[i].is_local = row.is_local

\* a share given with forward slashes was registered next to a drive folder
C21_Witness ==
    /\ lastReg.op = "add_folder"
    /\ lastReg.arg = <<"/", "/", "n", "/">>
    /\ lastReg.result # 0
    /\ ~monitored_folders[lastReg.result].is_local
    /\ \E i \in DOMAIN monitored_folders : monitored_folders[i].is_local

InitScan == ScanInit /\ DebounceInit /\ PollerIdle /\ ManagerIdle /\ RegistryIdle

SpecScan == InitScan /\ [][ScanNext]_vars

\* a rescan is under way in the thread: started, its last batch not yet flushed
Rescanning(thread) == thread.pc \in {"clear_source", "walk"}

\* C22: no two operations write to the Folder Index Store at the same time:
\* a rescan in a scanner thread overlaps neither with another rescan nor with
\* a clear_source the UI thread is executing.
C22_SingleWriter ==
    /\ ~(Rescanning(scanner_thread) /\ Rescanning(orphan))
    /\ ~(uiPc = "clear_source" /\ (Rescanning(scanner_thread) \/ Rescanning(orphan)))

\* C23: no recorded event is lost: for every path that had an event recorded
\* since the last flush took its copy of the pending map, an event of the
\* path's last type is still in the pending map, for the next flush to emit,
\* or in the copy of the flush in progress; this includes an event recorded
\* while a flush is in progress.
C23_RecordedEventNotLost ==
    \A p \in SrcPaths :
        win.last[p] # "none" =>
            \/ pending[p] # NoEvent /\ pending[p].event_type = win.last[p]
            \/ \E e \in flushEvents : e.src_path = p /\ e.event_type = win.last[p]

\* the scanner threads run to their end, the event loop delivers the
\* finished signals, and a call of db.clear_source returns
ScanFairness ==
    /\ \A which \in ScanThreads :
          /\ WF_vars(ScanClearSource(which))
          /\ WF_vars(ScanEmitFinished(which))
          /\ WF_vars(ThreadExit(which))
    /\ WF_vars(_on_scan_finished)
    /\ WF_vars(_on_silent_scan_finished)
    /\ WF_vars(DeleteIndexEnd)

SpecScanFair == InitScan /\ [][ScanNext]_vars /\ ScanFairness

\* C24: every path a rescan is requested for is eventually rescanned: while
\* no scan was started for it since the request it waits in the scan queue
\* (a request made during a running scan is queued, and no request takes a
\* waiting path out of the queue), a scan is eventually started for it, and
\* _update_changed_folders writes the last_mtime only of folders it started
\* a scan for.
C24_RequestsRescanned ==
    /\ [](requested \subseteq Range(scan_queue))
    /\ [](lastScan.op = "_update_changed_folders" =>
             \A id \in lastScan.persisted :
                 monitored_folders[id].path \in lastScan.started)
    /\ \A path \in ScanPaths : (path \in requested) ~> (path \notin requested)

\* C25: while the manager is stopped no local watch and no poll timer is
\* active, whatever was called before, apply_config_changes included.
C25_StoppedHasNoWatch ==
    ~_running =>
        /\ _observers = {}
        /\ \A path \in PollPaths : _timers[path] = 0

\* the Folder Index holds a folder whose path is the monitored path of
\* folder id or lies under it, without regard to case
IndexedAtOrUnder(id) ==
    \E fo \in folders :
        \/ Lower(fo.path) = Lower(monitored_folders[id].path)
        \/ StartsWith(Lower(fo.path), Lower(monitored_folders[id].path) \o <<Sep>>)

\* C26: a pass that returns reports an enabled, accessible folder with
\* is_new_folder = true exactly when the index holds no folder at or under
\* its path, and then with zero counts and no sample, whatever its
\* last_mtime.
C26_NewFolderExact ==
    [][ (phase = "start" /\ phase' # "start" /\ lastPass'.status = "returned") =>
          \A id \in FolderIds :
             (monitored_folders[id].enabled /\ disk[id].reach # "gone") =>
                /\ (\E ch \in lastPass'.changed : ch.id = id /\ ch.is_new_folder)
                      <=> ~IndexedAtOrUnder(id)
                /\ \A ch \in lastPass'.changed :
                      (ch.id = id /\ ch.is_new_folder) =>
                         /\ ch.added_count = 0 /\ ch.deleted_count = 0
                         /\ ch.modified_count = 0 /\ ch.file_changes = <<>> ]_vars

\* C27: a successful tick of a path stores the current mtime as the last
\* value of the path, and it emits changes_detected with the current mtime
\* exactly when a last value was recorded for the path and the current
\* mtime differs from it (a tick that finds the recorded mtime emits nothing).
C27_EmitIffMtimeDiffers ==
    [][ (lastTick' # lastTick /\ lastTick'.kind = "ok") =>
           LET path == lastTick'.path
           IN /\ _last_mtime'[path] = dirMtime[path]
              /\ lastTick'.emitted <=>
                     (_last_mtime[path] # Absent /\ dirMtime[path] # _last_mtime[path])
              /\ lastTick'.emitted => lastTick'.changes_detected = dirMtime[path] ]_vars

\* bound: files in one difference set of a diff
MaxDiff == 11

\* the FolderChange _check_folder hands to _detect_file_changes for the
\* accessible, indexed folder 1 whose mtime moved from 1 to 2
DiffChange ==
    [id |-> 1, old_mtime |-> 1, new_mtime |-> 2, accessible |-> TRUE, is_new_folder |-> FALSE,
     added_count |-> 0, deleted_count |-> 0, modified_count |-> 0, file_changes |-> <<>>]

\* the comparison of _detect_file_changes on difference sets of a, d and m
\* paths; the pass returns the FolderChange in changed
DetectCompare(a, d, m) ==
    /\ lastPass' = [status |-> "returned",
                    changed |-> {CompareFiles(DiffChange, 1..a, 1..d, 1..m)},
                    errors |-> {}, updated |-> {}]
    /\ UNCHANGED <<monitored_folders, disk, phase, _running, scan_requests, surfaced,
                   folders, files, notReconcile>>

DiffNext == \E a \in 0..MaxDiff, d \in 0..MaxDiff, m \in 0..MaxDiff : DetectCompare(a, d, m)

InitDiff == ReconcileIdle /\ IndexEmpty /\ DebounceInit /\ PollerIdle /\ ManagerIdle /\ RegistryIdle /\ ScanIdle

SpecDiff == InitDiff /\ [][DiffNext]_vars

CountType(file_changes, change_type) ==
    Cardinality({i \in DOMAIN file_changes : file_changes[i] = change_type})

ListedPatterns ==
    { <<".", "t", "m", "p">>, <<".", "c", "r", "d", "o", "w", "n", "l", "o", "a", "d">>,
      <<".", "p", "a", "r", "t">>, <<"~", "$">>, <<".", "s", "w", "p">>,
      <<".", "l", "o", "c", "k">>,
      <<"d", "e", "s", "k", "t", "o", "p", ".", "i", "n", "i">>,
      <<"t", "h", "u", "m", "b", "s", ".", "d", "b">> }

\* the file name of p matches a listed pattern, whatever its letter case
ListedName(p) == \E pattern \in ListedPatterns : Contains(Lower(PathName(p)), pattern)

\* C29: an event whose source file name matches a listed ignore pattern,
\* in any letter case, is not recorded in the pending map, is in no batch
\* being flushed and in no emitted batch.
C29_IgnoredNeverRecorded ==
    \A p \in SrcPaths : ListedName(p) =>
        /\ pending[p] = NoEvent
        /\ \A e \in flushEvents \cup lastBatch : e.src_path # p

\* the folder is enabled, accessible and indexed, and no last_mtime is
\* recorded for it
FirstCheckFolder(id) ==
    /\ monitored_folders[id].enabled
    /\ disk[id].reach # "gone"
    /\ IndexedAtOrUnder(id)
    /\ monitored_folders[id].last_mtime = 0

\* C30: a pass stores the current directory mtime as last_mtime of every
\* enabled, accessible, indexed folder that has no last_mtime, and puts the
\* folder in neither changed nor errors; the next pass of the process, with
\* the directory as it was, finds the recorded mtime and leaves the folder
\* out of changed and errors again.
C30_FirstCheckSilent ==
    [][ (phase = "start" /\ phase' # "start") =>
          \A id \in FolderIds :
             /\ FirstCheckFolder(id) =>
                   /\ monitored_folders'[id].last_mtime = disk[id].mtime
                   /\ id \in lastPass'.updated
                   /\ id \notin ChangedIds(lastPass')
                   /\ \A e \in lastPass'.errors : e.id # id
             /\ (id \in lastPass.updated /\ UnchangedFolder(id)) =>
                   /\ id \notin ChangedIds(lastPass')
                   /\ \A e \in lastPass'.errors : e.id # id ]_vars
====
